---- MODULE Spec2Model ----
(***************************************************************************)
(* Agent Trust & Discovery Resolver (redhat-et/agent-orchestration).       *)
(*                                                                         *)
(* Part 1: SignatureVerifier of src/mcp/oc_agent_bridge.py: the canonical  *)
(* payload candidates, the key resolver and verify().                      *)
(*                                                                         *)
(* Representation of Python values                                         *)
(*   - None, or a dict key that is absent, is NoVal; dict.get returns None *)
(*     for both, so the model does not tell them apart for string fields.  *)
(*   - a JSON value that may be of any type (exp, nbf, iat, card fields)   *)
(*     is a pair <<tag, n>>, tag in absent/null/bool/num/str..., n an      *)
(*     integer, so that values of different JSON types stay comparable.    *)
(*   - an exception raised by a function is the function returning an      *)
(*     error tag (a string other than NoVal).                              *)
(***************************************************************************)
EXTENDS Integers, Sequences, FiniteSets, TLC

NoVal == "<none>"
Unset == "<unset>"

(***************************************************************************)
(* Bounds of the model.                                                    *)
(***************************************************************************)
MaxSigs == 2
MaxTick == 1
T0 == 3

(***************************************************************************)
(* Program constants.                                                      *)
(***************************************************************************)
ALLOWED_SIGNATURE_ALGORITHMS == <<"RS256", "ES256">>

MAX_SIGNATURE_AGE_SECONDS == 1

(***************************************************************************)
(* JOSE headers.  A header is a JSON object; the model keeps the members   *)
(* the verifier or the JWS library reads.                                  *)
(***************************************************************************)
Absent == <<"absent", 0>>

EmptyHdr ==
  [alg |-> NoVal, kid |-> NoVal, crit |-> NoVal, jwk |-> NoVal, jku |-> NoVal,
   exp |-> Absent, nbf |-> Absent, iat |-> Absent]

\* The protected-header blob of an envelope: enc says what the string is.
\*   "none"  : the envelope has no "protected" member (or it is null)
\*   "empty" : the empty string
\*   "bad"   : a string that is not base64url of JSON
\*   "json"  : base64url of the JSON object `json`
ProtBlob(enc, hdr) == [enc |-> enc, json |-> hdr]

NoProt == ProtBlob("none", EmptyHdr)

\* Python truthiness of a string-or-None value.
Truthy(v) == v \notin {NoVal, "", "[]"}

\* _base64url_decode_to_json: the JSON object of a blob; "decode_error" when
\* base64 or JSON decoding raises.
DecodeError(protected_b64) == protected_b64.enc = "bad"

Base64urlDecodeToJson(protected_b64) == protected_b64.json

\* line 241: protected_json = decode(protected_b64) if protected_b64 else {}
ProtectedJson(protected_b64) ==
  IF protected_b64.enc \in {"none", "empty"} THEN EmptyHdr
  ELSE Base64urlDecodeToJson(protected_b64)

(***************************************************************************)
(* Cards and canonical payloads.                                           *)
(* A card is a dict: `fields` is its items in insertion order, each        *)
(* <<key, value>>; the value of "signatures" is <<"null",0>> or            *)
(* <<"list",0>>, the list itself being card.sigs.                          *)
(***************************************************************************)
KeyOrder == <<"description", "name", "signatures", "version">>

HasKey(fields, k) == \E i \in 1..Len(fields) : fields[i][1] = k

Get(fields, k) ==
  IF HasKey(fields, k)
  THEN fields[CHOOSE i \in 1..Len(fields) : fields[i][1] = k][2]
  ELSE <<"null", 0>>

\* dict.pop(key, None) on a copy
Pop(fields, k) ==
  LET Keep(p) == p[1] # k IN SelectSeq(fields, Keep)

\* items sorted by key (sort_keys=True; JCS sorts members too)
SortedItems(fields) ==
  LET Present(k) == HasKey(fields, k)
      ks == SelectSeq(KeyOrder, Present)
  IN [i \in 1..Len(ks) |-> <<ks[i], Get(fields, ks[i])>>]

RECURSIVE Join(_, _)
Join(strs, sep) ==
  IF Len(strs) = 0 THEN ""
  ELSE IF Len(strs) = 1 THEN strs[1]
  ELSE strs[1] \o sep \o Join(Tail(strs), sep)

\* json.dumps of one value: a float keeps its ".0", an int of any size is
\* written in full
PyValue(v, sigs) ==
  CASE v[1] = "str" -> "\"s" \o ToString(v[2]) \o "\""
    [] v[1] = "int" -> ToString(v[2])
    [] v[1] = "float" -> ToString(v[2]) \o ".0"
    [] v[1] = "bigint" -> "9007199254740993"
    [] v[1] = "list" -> "[" \o ToString(Len(sigs)) \o " envelopes]"
    [] OTHER -> "null"

\* RFC 8785 value: numbers in ECMAScript form (1.0 is written 1)
JcsValue(v, sigs) ==
  CASE v[1] = "float" -> ToString(v[2])
    [] OTHER -> PyValue(v, sigs)

\* rfc8785.dump raises on an integer outside the IEEE-754 exact range
JcsRaises(fields) == \E i \in 1..Len(fields) : fields[i][2][1] = "bigint"

JsonDumps(fields, sigs) ==
  LET items == SortedItems(fields)
      strs == [i \in 1..Len(items) |->
                 "\"" \o items[i][1] \o "\":" \o PyValue(items[i][2], sigs)]
  IN "{" \o Join(strs, ",") \o "}"

JcsDump(fields, sigs) ==
  LET items == SortedItems(fields)
      strs == [i \in 1..Len(items) |->
                 "\"" \o items[i][1] \o "\":" \o JcsValue(items[i][2], sigs)]
  IN "{" \o Join(strs, ",") \o "}"

\* _base64url_encode: injective on byte strings
Base64urlEncode(str) == "b64:" \o str

\* the candidates built from the card as passed, signatures included
CandidatePayloadB64sWithSignatures(agent_card) ==
  LET card_copy == agent_card.fields
      uniques == IF JcsRaises(card_copy) THEN <<>>
                 ELSE <<Base64urlEncode(JcsDump(card_copy, agent_card.sigs))>>
      b64 == Base64urlEncode(JsonDumps(card_copy, agent_card.sigs))
      Is(x) == x = b64
  IN IF Len(SelectSeq(uniques, Is)) = 0 THEN Append(uniques, b64) ELSE uniques

\* the candidates with the minified encoding appended unconditionally
CandidatePayloadB64sAppendAlways(agent_card) ==
  LET card_copy == Pop(agent_card.fields, "signatures")
      uniques == IF JcsRaises(card_copy) THEN <<>>
                 ELSE <<Base64urlEncode(JcsDump(card_copy, agent_card.sigs))>>
  IN Append(uniques, Base64urlEncode(JsonDumps(card_copy, agent_card.sigs)))

\* _candidate_payload_b64s, lines 99-129; a missing rfc8785 library takes the
\* same except branch as a value the library rejects
CandidatePayloadB64s(agent_card) ==
  LET card_copy == Pop(agent_card.fields, "signatures")
      uniques == IF JcsRaises(card_copy) THEN <<>>
                 ELSE <<Base64urlEncode(JcsDump(card_copy, agent_card.sigs))>>
      b64 == Base64urlEncode(JsonDumps(card_copy, agent_card.sigs))
      Is(x) == x = b64
  IN IF Len(SelectSeq(uniques, Is)) = 0 THEN Append(uniques, b64) ELSE uniques

\* the caller's card after _candidate_payload_b64s had popped "signatures"
\* from it instead of from a copy
CardAfterCandidatesPopped(agent_card) ==
  [fields |-> Pop(agent_card.fields, "signatures"), sigs |-> <<>>]

\* the caller's card after _candidate_payload_b64s returned: lines 108-109
\* pop "signatures" from a deep copy, the card passed in is not touched
CardAfterCandidates(agent_card) == agent_card

\* agent_card.get("signatures") or []
Signatures(agent_card) ==
  IF Get(agent_card.fields, "signatures")[1] = "list" THEN agent_card.sigs ELSE <<>>

(***************************************************************************)
(* Keys.  A JWK of the trusted set: its kid, its key type, its declared    *)
(* use (NoVal when the JWK has no "use") and its key material; mat names   *)
(* the key pair, so a signature made with the private half of mat checks   *)
(* against a key holding mat.                                              *)
(***************************************************************************)
Jwk(kid, kty, use, mat) == [kid |-> kid, kty |-> kty, use |-> use, mat |-> mat]

NoKey == Jwk(NoVal, NoVal, NoVal, NoVal)

\* alg.startswith('RS') or alg.startswith('PS') / alg.startswith('ES')
StartsWithRSorPS(alg) == alg \in {"RS256", "RS384", "RS512", "PS256"}

StartsWithES(alg) == alg \in {"ES256", "ES384", "ES512"}

\* KeySet.find_by_kid: the first key of the set with that kid.  A library
\* build may also return the only key of a one-key set when the header has
\* no kid (kidless); no key found is "key_not_found".
FindByKid(keys, kid, kidless) ==
  LET Match(k) == k.kid = kid
      hits == SelectSeq(keys, Match)
  IN IF kid = NoVal /\ kidless /\ Len(keys) = 1 THEN keys[1]
     ELSE IF Len(hits) > 0 THEN hits[1]
     ELSE NoKey

\* A resolver without the use and type checks of lines 194-206.
ResolverWithoutChecks(key_set, kidless, header) ==
  LET key == FindByKid(key_set, header.kid, kidless)
  IN IF key = NoKey THEN [err |-> "key_not_found", key |-> NoKey]
     ELSE [err |-> NoVal, key |-> key]

\* A resolver that falls back to the jwk the header embeds.
ResolverHonoringJwk(key_set, kidless, header) ==
  LET key == FindByKid(key_set, header.kid, kidless)
      alg == header.alg
  IN IF key = NoKey
     THEN IF header.jwk # NoVal
          THEN [err |-> NoVal,
                key |-> Jwk(header.kid, IF StartsWithES(alg) THEN "EC" ELSE "RSA",
                            "sig", header.jwk)]
          ELSE [err |-> "key_not_found", key |-> NoKey]
     ELSE IF Truthy(key.use) /\ key.use # "sig"
     THEN [err |-> "invalid_use", key |-> NoKey]
     ELSE IF StartsWithRSorPS(alg) /\ key.kty # "RSA"
     THEN [err |-> "requires_rsa", key |-> NoKey]
     ELSE IF StartsWithES(alg) /\ key.kty # "EC"
     THEN [err |-> "requires_ec", key |-> NoKey]
     ELSE [err |-> NoVal, key |-> key]

\* key_resolver(header, _payload) of _create_key_resolver: the key, or the
\* exception it raises
KeyResolver(key_set, kidless, header) ==
  LET key == FindByKid(key_set, header.kid, kidless)
      alg == header.alg
  IN IF key = NoKey THEN [err |-> "key_not_found", key |-> NoKey]
     ELSE IF Truthy(key.use) /\ key.use # "sig"
     THEN [err |-> "invalid_use", key |-> NoKey]
     ELSE IF StartsWithRSorPS(alg) /\ key.kty # "RSA"
     THEN [err |-> "requires_rsa", key |-> NoKey]
     ELSE IF StartsWithES(alg) /\ key.kty # "EC"
     THEN [err |-> "requires_ec", key |-> NoKey]
     ELSE [err |-> NoVal, key |-> key]

(***************************************************************************)
(* Temporal claims.                                                        *)
(***************************************************************************)
IsNone(v) == v[1] \in {"absent", "null"}

\* isinstance(v, (int, float)): bool is a subclass of int in Python, so a
\* JSON true/false passes with the value 1/0
IsIntOrFloat(v) == v[1] \in {"num", "bool"}

\* _validate_timestamps rejecting an iat older than the maximum age.
ValidateTimestampsMaxAge(protected_json, current_time) ==
  LET exp == protected_json.exp
      nbf == protected_json.nbf
      iat == protected_json.iat
  IN IF ~IsNone(exp) /\ (~IsIntOrFloat(exp) \/ exp[2] < current_time)
     THEN "expired"
     ELSE IF ~IsNone(nbf) /\ (~IsIntOrFloat(nbf) \/ nbf[2] > current_time)
     THEN "not_yet_valid"
     ELSE IF ~IsNone(iat) /\ ~IsIntOrFloat(iat)
     THEN "invalid_iat"
     ELSE IF ~IsNone(iat) /\ current_time - iat[2] > MAX_SIGNATURE_AGE_SECONDS
     THEN "too_old"
     ELSE NoVal

\* _validate_timestamps with strict comparisons (exp <= now, nbf >= now).
ValidateTimestampsStrict(protected_json, current_time) ==
  LET exp == protected_json.exp
      nbf == protected_json.nbf
      iat == protected_json.iat
  IN IF ~IsNone(exp) /\ (~IsIntOrFloat(exp) \/ exp[2] <= current_time)
     THEN "expired"
     ELSE IF ~IsNone(nbf) /\ (~IsIntOrFloat(nbf) \/ nbf[2] >= current_time)
     THEN "not_yet_valid"
     ELSE IF ~IsNone(iat) /\ ~IsIntOrFloat(iat)
     THEN "invalid_iat"
     ELSE NoVal

\* _validate_timestamps: the exception raised, or NoVal
ValidateTimestamps(protected_json, current_time) ==
  LET exp == protected_json.exp
      nbf == protected_json.nbf
      iat == protected_json.iat
  IN IF ~IsNone(exp) /\ (~IsIntOrFloat(exp) \/ exp[2] < current_time)
     THEN "expired"
     ELSE IF ~IsNone(nbf) /\ (~IsIntOrFloat(nbf) \/ nbf[2] > current_time)
     THEN "not_yet_valid"
     ELSE IF ~IsNone(iat) /\ ~IsIntOrFloat(iat)
     THEN "invalid_iat"
     ELSE NoVal

\* lines 184-186: the "very old" warning is logged
AgeWarning(protected_json, current_time) ==
  LET iat == protected_json.iat
  IN /\ ValidateTimestamps(protected_json, current_time) = NoVal
     /\ ~IsNone(iat)
     /\ current_time - iat[2] > MAX_SIGNATURE_AGE_SECONDS

(***************************************************************************)
(* The JWS library call of line 268, by its RFC 7515 contract: the JOSE    *)
(* header is the union of the protected and the unprotected header (whose  *)
(* member names are disjoint in a well-formed envelope), the key comes     *)
(* from the resolver, and the signature must be one made with that key and *)
(* algorithm over protected || "." || payload.                             *)
(***************************************************************************)
Pick(p, u) == IF p # NoVal THEN p ELSE u

JoseHeader(protected_json, unprotected) ==
  [alg |-> Pick(protected_json.alg, unprotected.alg),
   kid |-> Pick(protected_json.kid, unprotected.kid),
   crit |-> Pick(protected_json.crit, unprotected.crit),
   jwk |-> Pick(protected_json.jwk, unprotected.jwk),
   jku |-> Pick(protected_json.jku, unprotected.jku),
   exp |-> protected_json.exp, nbf |-> protected_json.nbf, iat |-> protected_json.iat]

SigValue(mat, alg, prot, payload) ==
  [present |-> TRUE, mat |-> mat, alg |-> alg, prot |-> prot, payload |-> payload]

NoSig == [present |-> FALSE, mat |-> NoVal, alg |-> NoVal, prot |-> NoProt, payload |-> NoVal]

AlgorithmVerify(alg, key, protected_b64, payload_b64, signature) ==
  /\ signature.mat = key.mat
  /\ signature.alg = alg
  /\ signature.prot = protected_b64
  /\ signature.payload = payload_b64
  /\ (StartsWithRSorPS(alg) => key.kty = "RSA")
  /\ (StartsWithES(alg) => key.kty = "EC")

\* deserialize_json(flattened, key_resolver): ok, or the exception (err);
\* crypto tells whether the signature check itself ran
DeserializeJson(flattened, key_set, kidless) ==
  LET Raise(e) == [ok |-> FALSE, crypto |-> FALSE, err |-> e]
      hdr == JoseHeader(ProtectedJson(flattened.protected), flattened.header)
      kr == KeyResolver(key_set, kidless, hdr)
      good == AlgorithmVerify(hdr.alg, kr.key, flattened.protected,
                              flattened.payload, flattened.signature)
  IN IF flattened.protected.enc \in {"none", "empty"} THEN Raise("missing_protected")
     ELSE IF ~flattened.signature.present THEN Raise("missing_signature")
     ELSE IF DecodeError(flattened.protected) THEN Raise("decode_error")
     ELSE IF ~(StartsWithRSorPS(hdr.alg) \/ StartsWithES(hdr.alg))
     THEN Raise("unsupported_alg")
     ELSE IF kr.err # NoVal THEN Raise(kr.err)
     ELSE [ok |-> good, crypto |-> TRUE,
           err |-> IF good THEN NoVal ELSE "bad_signature"]

(***************************************************************************)
(* SignatureVerifier.verify, one envelope (the body of the loop, lines     *)
(* 235-286).  An envelope is [protected, header, signature]: the           *)
(* protected blob, the unprotected header (EmptyHdr when there is none)    *)
(* and the signature value.                                                *)
(***************************************************************************)
Info(valid, kid, alg, error) == [valid |-> valid, kid |-> kid, alg |-> alg, error |-> error]

AlgAllowed(alg) ==
  \E i \in 1..Len(ALLOWED_SIGNATURE_ALGORITHMS) : ALLOWED_SIGNATURE_ALGORITHMS[i] = alg

\* line 242: protected_json.get("kid") or (unprotected or {}).get("kid")
InfoKid(sig) ==
  LET kid == ProtectedJson(sig.protected).kid
  IN IF Truthy(kid) THEN kid ELSE sig.header.kid

\* line 250: protected_json.get("crit") or (unprotected or {}).get("crit")
Crit(sig) ==
  LET crit == ProtectedJson(sig.protected).crit
  IN IF Truthy(crit) THEN crit ELSE sig.header.crit

\* The policy checks with the allow-list applied to the merged header.
PolicyErrorJoseAlg(sig, current_time) ==
  LET protected_json == ProtectedJson(sig.protected)
  IN IF DecodeError(sig.protected) THEN "decode_error"
     ELSE IF ~AlgAllowed(JoseHeader(protected_json, sig.header).alg) THEN "alg_not_allowed"
     ELSE IF Truthy(Crit(sig)) THEN "crit_unsupported"
     ELSE ValidateTimestamps(protected_json, current_time)

\* The policy checks reading crit from the protected header only.
PolicyErrorProtectedCrit(sig, current_time) ==
  LET protected_json == ProtectedJson(sig.protected)
  IN IF DecodeError(sig.protected) THEN "decode_error"
     ELSE IF ~AlgAllowed(protected_json.alg) THEN "alg_not_allowed"
     ELSE IF Truthy(protected_json.crit) THEN "crit_unsupported"
     ELSE ValidateTimestamps(protected_json, current_time)

\* lines 241-255: the exception raised before the verification loop, if any
PolicyError(sig, current_time) ==
  LET protected_json == ProtectedJson(sig.protected)
  IN IF DecodeError(sig.protected) THEN "decode_error"
     ELSE IF ~AlgAllowed(protected_json.alg) THEN "alg_not_allowed"
     ELSE IF Truthy(Crit(sig)) THEN "crit_unsupported"
     ELSE ValidateTimestamps(protected_json, current_time)

Flattened(sig, payload_b64) ==
  [payload |-> payload_b64, protected |-> sig.protected,
   signature |-> sig.signature, header |-> sig.header]

\* lines 258-273: the candidates are tried in order up to the first success;
\* attempts counts the deserialize_json calls, crypto those that got as far
\* as checking the signature
RECURSIVE TryCandidates(_, _, _, _)
TryCandidates(sig, candidates, key_set, kidless) ==
  IF Len(candidates) = 0 THEN [verified |-> FALSE, attempts |-> 0, crypto |-> 0]
  ELSE LET r == DeserializeJson(Flattened(sig, Head(candidates)), key_set, kidless)
           c == IF r.crypto THEN 1 ELSE 0
       IN IF r.ok THEN [verified |-> TRUE, attempts |-> 1, crypto |-> c]
          ELSE LET rest == TryCandidates(sig, Tail(candidates), key_set, kidless)
               IN [verified |-> rest.verified, attempts |-> rest.attempts + 1,
                   crypto |-> rest.crypto + c]

\* The loop body with the candidates tried before the policy result is used.
CryptoFirst(sig, candidates, key_set, kidless, current_time) ==
  LET err == PolicyError(sig, current_time)
      t == TryCandidates(sig, candidates, key_set, kidless)
      protected_json == ProtectedJson(sig.protected)
      Obs(a, c) == [at |-> current_time, attempts |-> a, crypto |-> c,
                    aged |-> err = NoVal /\ AgeWarning(protected_json, current_time)]
  IN IF err = "decode_error"
     THEN [info |-> Info(FALSE, Unset, Unset, err), obs |-> Obs(0, 0)]
     ELSE IF err # NoVal
     THEN [info |-> Info(FALSE, InfoKid(sig), protected_json.alg, err),
           obs |-> Obs(t.attempts, t.crypto)]
     ELSE [info |-> Info(t.verified, InfoKid(sig), protected_json.alg, Unset),
           obs |-> Obs(t.attempts, t.crypto)]

\* the loop body: the detail appended for the envelope, and what the
\* iteration did (obs: the time it read, the attempts, the age warning)
VerifyEnvelope(sig, candidates, key_set, kidless, current_time) ==
  LET err == PolicyError(sig, current_time)
      t == TryCandidates(sig, candidates, key_set, kidless)
      protected_json == ProtectedJson(sig.protected)
      Obs(a, c) == [at |-> current_time, attempts |-> a, crypto |-> c,
                    aged |-> err = NoVal /\ AgeWarning(protected_json, current_time)]
  IN IF err = "decode_error"
     THEN [info |-> Info(FALSE, Unset, Unset, err), obs |-> Obs(0, 0)]
     ELSE IF err # NoVal
     THEN [info |-> Info(FALSE, InfoKid(sig), protected_json.alg, err), obs |-> Obs(0, 0)]
     ELSE [info |-> Info(t.verified, InfoKid(sig), protected_json.alg, Unset),
           obs |-> Obs(t.attempts, t.crypto)]

\* all_valid as the validity of the last envelope only.
LastValid(all_valid, info) == info.valid

\* lines 233, 275-283: all_valid after an iteration
NextAllValid(all_valid, info) == all_valid /\ info.valid

(***************************************************************************)
(* Inputs.  Key sets, envelopes and cards are built from well-formed ones  *)
(* by changing one member at a time.  Envelopes are JSON objects whose     *)
(* unprotected header, when present, is a JSON object, and a header member *)
(* appears in the protected or in the unprotected header, not in both      *)
(* (RFC 7515, 7.2.1); the protected blob may be any string.                *)
(***************************************************************************)
K1 == Jwk("k1", "RSA", "sig", "rsa1")

K2 == Jwk("k2", "EC", NoVal, "ec1")

TrustedKeySets ==
  { <<K1, K2>>, <<K1>>, <<K2>>, <<>>,
    <<Jwk("k1", "RSA", "enc", "rsa1"), K2>>,
    <<K1, Jwk("k2", "EC", "enc", "ec1")>>,
    <<Jwk("k1", "EC", "sig", "ec1"), Jwk("k2", "RSA", "sig", "rsa1")>>,
    <<Jwk("k1", "oct", NoVal, "rsa1")>>,
    <<Jwk("k1", "RSA", NoVal, "rsa2"), K1>>,
    <<Jwk("k1", "RSA", "enc", "rsa2"), K1>>,
    <<Jwk(NoVal, "RSA", "sig", "rsa1"), K2>> }

\* the algorithm a signer uses with a key pair
SignAlg(mat) == IF mat = "ec1" THEN "ES256" ELSE "RS256"

TimeVals ==
  { <<"null", 0>>, <<"bool", 0>>, <<"bool", 1>>, <<"str", 0>> }
    \cup { <<"num", t>> : t \in (T0 - 2)..(T0 + MaxTick + 1) }

\* What a publisher did to produce an envelope: the headers, the blob
\* encoding, the key pair it signed with, the payload encoding it signed
\* (over) and whether the signature is there and covers the protected blob.
EnvSpec(h, u, mat, over) ==
  [h |-> h, u |-> u, enc |-> "json", mat |-> mat, over |-> over, sig |-> "ok"]

SpecRS == EnvSpec([EmptyHdr EXCEPT !.alg = "RS256", !.kid = "k1"], EmptyHdr, "rsa1", "min")

SpecES == EnvSpec([EmptyHdr EXCEPT !.alg = "ES256", !.kid = "k2"], EmptyHdr, "ec1", "jcs")

\* signed by a key pair of the publisher's own, which the card embeds
SpecSelf ==
  EnvSpec([EmptyHdr EXCEPT !.alg = "RS256", !.kid = "kx", !.jwk = "rsaX",
                           !.jku = "https://evil/jwks.json"],
          EmptyHdr, "rsaX", "min")

Variants(s) ==
  { [s EXCEPT !.h.alg = a] : a \in {"none", "HS256", "PS256", "RS256", "ES256", NoVal} }
    \cup { [s EXCEPT !.h.alg = NoVal, !.u.alg = s.h.alg] }
    \cup { [s EXCEPT !.h.kid = k] : k \in {"k1", "k2", "kx", NoVal} }
    \cup { [s EXCEPT !.h.kid = NoVal, !.u.kid = s.h.kid] }
    \cup { [s EXCEPT !.h.crit = c] : c \in {"[]", "[exp]"} }
    \cup { [s EXCEPT !.u.crit = c] : c \in {"[]", "[exp]"} }
    \cup { [s EXCEPT !.h.exp = t] : t \in TimeVals }
    \cup { [s EXCEPT !.h.nbf = t] : t \in TimeVals }
    \cup { [s EXCEPT !.h.iat = t] : t \in TimeVals }
    \cup { [s EXCEPT !.u.exp = <<"num", 0>>] }
    \cup { [s EXCEPT !.h.jwk = "rsaX"], [s EXCEPT !.u.jwk = "rsaX"],
           [s EXCEPT !.h.jwk = NoVal, !.u.jwk = s.h.jwk],
           [s EXCEPT !.u.jku = "https://evil/jwks.json"] }
    \cup { [s EXCEPT !.enc = e] : e \in {"none", "empty", "bad"} }
    \cup { [s EXCEPT !.mat = m] : m \in {"rsa1", "rsa2", "ec1", "rsaX"} }
    \cup { [s EXCEPT !.over = o] : o \in {"jcs", "min", "other"} }
    \cup { [s EXCEPT !.sig = g] : g \in {"missing", "tampered"} }

EnvSpecs == UNION { Variants(s) : s \in {SpecRS, SpecES, SpecSelf} }

\* envelopes that stand for the outcomes, for the cards of several envelopes
SomeSpecs ==
  { SpecRS, SpecES, SpecSelf,
    [SpecES EXCEPT !.h.exp = <<"num", T0 - 1>>],
    [SpecRS EXCEPT !.h.nbf = <<"num", T0 + 1>>],
    [SpecES EXCEPT !.sig = "tampered"] }

Fields1 == << <<"name", <<"str", 1>>>>, <<"signatures", <<"list", 0>>>>, <<"version", <<"int", 1>>>> >>

Fields2 == << <<"version", <<"float", 1>>>>, <<"signatures", <<"list", 0>>>>, <<"name", <<"str", 1>>>> >>

Fields3 == << <<"signatures", <<"list", 0>>>>, <<"version", <<"bigint", 0>>>> >>

FieldsNoSignatures == << <<"name", <<"str", 1>>>> >>

FieldsNullSignatures == << <<"name", <<"str", 1>>>>, <<"signatures", <<"null", 0>>>> >>

\* the payload encodings of a card's fields a publisher may have signed
PayloadOf(fields, over) ==
  LET body == Pop(fields, "signatures")
  IN CASE over = "jcs" -> Base64urlEncode(JcsDump(body, <<>>))
       [] over = "min" -> Base64urlEncode(JsonDumps(body, <<>>))
       [] OTHER -> Base64urlEncode("{ }")

Envelope(s, fields) ==
  LET blob == ProtBlob(s.enc, IF s.enc = "json" THEN s.h ELSE EmptyHdr)
      alg == SignAlg(s.mat)
      payload == PayloadOf(fields, s.over)
  IN [protected |-> blob,
      header |-> s.u,
      signature |->
        CASE s.sig = "missing" -> NoSig
          [] s.sig = "tampered" ->
               SigValue(s.mat, alg, ProtBlob("json", EmptyHdr), payload)
          [] OTHER -> SigValue(s.mat, alg, ProtBlob("json", s.h), payload)]

Card(fields, specs) ==
  [fields |-> fields, sigs |-> [i \in 1..Len(specs) |-> Envelope(specs[i], fields)]]

SpecSeqs(n) == UNION { [1..k -> SomeSpecs] : k \in 2..n }

Cards ==
  { Card(Fields1, <<>>), Card(FieldsNoSignatures, <<>>), Card(FieldsNullSignatures, <<>>) }
    \cup { Card(Fields1, <<s>>) : s \in EnvSpecs }
    \cup { Card(f, <<[s EXCEPT !.over = o]>>) :
             f \in {Fields2, Fields3}, s \in {SpecRS, SpecES}, o \in {"jcs", "min", "other"} }
    \cup { Card(Fields1, ss) : ss \in SpecSeqs(MaxSigs) }

NoCard == Card(FieldsNoSignatures, <<>>)

(***************************************************************************)
(* The state: one SignatureVerifier and the verify call in progress.       *)
(***************************************************************************)
VARIABLES
  jwks,       \* self.jwks: [loaded, keys]; loaded = FALSE is None
  kidless,    \* the library build's find_by_kid returns the only key for no kid
  now,        \* int(time.time())
  pc,         \* "idle", "loop" (inside verify's for loop), "done" (returned)
  card,       \* agent_card of the call
  idx,        \* index of the next envelope of the loop
  all_valid,  \* verify's local
  details,    \* verify's local
  trace,      \* what each iteration did, parallel to details
  result      \* the value returned: [all_valid, details]

\* The process environment, the cluster behind oc, and the discovery call
\* (_discover_agents_impl) or verify_if_required call in progress.
VARIABLES
  strict,      \* SecurityConfig.require_verified_card()
  cluster,     \* [agents, routes]: the Agent CRs and Routes oc answers with
  dpc,         \* "idle", "loop" (inside the for loop), "returned", "raised"
  params,      \* [verify_endpoints, verify_signatures] of the call
  agent_crs,   \* _discover_agents_impl's local
  route_index, \* _discover_agents_impl's local
  agents,      \* _discover_agents_impl's local: the result list
  dlog,        \* what each iteration met and did, parallel to agents
  outcome      \* [op, arg, raised, value]: the call and how it ended

dvars == <<strict, cluster, dpc, params, agent_crs, route_index, agents, dlog, outcome>>

\* The construction of a SignatureVerifier: SignatureVerifier(jwks), which
\* sets self.jwks (the variable jwks) from its argument or the environment.
VARIABLES
  environ,    \* os.environ: [json, path, url], the three A2A_TRUSTED_JWKS_*
  given,      \* the jwks argument of the constructor
  lpc,        \* "new" (not constructed), "made", "raised"
  source      \* where self.jwks came from, or which source raised

lvars == <<environ, given, lpc, source>>

\* The AgentController (controller.py), the Agent CRs of the API server it
\* talks to, and the event handlers of its three watcher tasks.
VARIABLES
  store,          \* the Agent CRs of the API server: a set of records
  managed_agents, \* self.managed_agents: <<namespace, agent name>> -> <<kind, name>>
  handlers,       \* per watcher: the handle_resource_event call it is in
  clog            \* the last handler step: its event and its API calls

cvars == <<store, managed_agents, handlers, clog>>

\* The mock agent (mock_agent/agent.py): its card, which _sign_agent_card
\* signs at start-up, and the verify call a client makes for that card.
VARIABLES
  signing,    \* [mat, key_kid, env_kid, env_alg, jwks_url]: the signing key and
              \* the A2A_SIGNING_KID, A2A_SIGNING_ALG and JWKS URL settings
  mock_card,  \* the AgentCard [fields, sigs]; once signed, its published dict
  spc,        \* "idle" (no agent), "built", "signed", "verified"
  changed,    \* what was done to the card since it was signed: "no", "value"
              \* (a member changed), "spelling" (the same number, 1 for 1.0)
  verdict     \* what verify returned for the card: [ok, details]

svars == <<signing, mock_card, spc, changed, verdict>>

vars == <<jwks, kidless, now, pc, card, idx, all_valid, details, trace, result,
          strict, cluster, dpc, params, agent_crs, route_index, agents, dlog, outcome,
          environ, given, lpc, source,
          store, managed_agents, handlers, clog,
          signing, mock_card, spc, changed, verdict>>

NoParams == [verify_endpoints |-> FALSE, verify_signatures |-> FALSE]

NoOutcome == [op |-> NoVal, arg |-> <<>>, raised |-> NoVal, value |-> <<>>]

NoCluster == [agents |-> <<>>, routes |-> <<>>]

\* no discovery call in progress
DiscoveryIdle ==
  /\ dpc = "idle"
  /\ params = NoParams
  /\ agent_crs = <<>>
  /\ route_index = <<>>
  /\ agents = <<>>
  /\ dlog = <<>>
  /\ outcome = NoOutcome

NoResult == [all_valid |-> FALSE, details |-> <<>>]

\* self.jwks is None: nothing configured
NoJwks == [loaded |-> FALSE, keys |-> <<>>]

\* self.jwks is {"keys": ks}
Jwks(ks) == [loaded |-> TRUE, keys |-> ks]

NoEnviron == [json |-> NoVal, path |-> NoVal, url |-> NoVal]

Watchers == {"routes", "services", "deployments"}

\* a watcher between two events
IdleHandler ==
  [pc |-> "idle", created |-> FALSE, kind |-> NoVal, name |-> NoVal, ns |-> NoVal,
   agent_name |-> NoVal, agent |-> <<>>, url |-> <<>>]

NoStep ==
  [type |-> NoVal, kind |-> NoVal, name |-> NoVal, key |-> <<>>, target |-> <<>>,
   calls |-> <<>>]

\* no controller is running
ControllerIdle ==
  /\ store = {}
  /\ managed_agents = <<>>
  /\ handlers = [w \in Watchers |-> IdleHandler]
  /\ clog = NoStep

NoSigning ==
  [mat |-> NoVal, key_kid |-> NoVal, env_kid |-> NoVal, env_alg |-> NoVal,
   jwks_url |-> NoVal]

NoVerdict == [ok |-> FALSE, details |-> <<>>]

\* no mock agent is running
SignerIdle ==
  /\ signing = NoSigning
  /\ mock_card = NoCard
  /\ spc = "idle"
  /\ changed = "no"
  /\ verdict = NoVerdict

\* the verifier exists already; its construction is not followed
LoaderIdle ==
  /\ environ = NoEnviron
  /\ given = NoJwks
  /\ lpc = "made"
  /\ source = NoVal

Init ==
  /\ jwks \in {NoJwks} \cup {Jwks(ks) : ks \in TrustedKeySets}
  /\ kidless \in BOOLEAN
  /\ now = T0
  /\ pc = "idle"
  /\ card = NoCard
  /\ idx = 1
  /\ all_valid = FALSE
  /\ details = <<>>
  /\ trace = <<>>
  /\ result = NoResult
  /\ strict = FALSE
  /\ cluster = NoCluster
  /\ DiscoveryIdle
  /\ LoaderIdle
  /\ ControllerIdle
  /\ SignerIdle

\* time passes
Tick ==
  /\ now < T0 + MaxTick
  /\ now' = now + 1
  /\ UNCHANGED <<jwks, kidless, pc, card, idx, all_valid, details, trace, result>>
  /\ UNCHANGED <<dvars, lvars, cvars, svars>>

\* verify of a card without signatures answering "all valid" (vacuous truth).
VacuousTruth ==
  /\ pc = "idle"
  /\ \E c \in Cards :
       /\ Len(Signatures(c)) = 0
       /\ card' = c
  /\ pc' = "done"
  /\ idx' = 1
  /\ all_valid' = TRUE
  /\ details' = <<>>
  /\ trace' = <<>>
  /\ result' = [all_valid |-> TRUE, details |-> <<>>]
  /\ UNCHANGED <<jwks, kidless, now>>
  /\ UNCHANGED <<dvars, lvars, cvars, svars>>

\* verify(agent_card), lines 219-222: no signatures
VerifyNoSignatures ==
  /\ pc = "idle"
  /\ \E c \in Cards :
       /\ Len(Signatures(c)) = 0
       /\ card' = c
  /\ pc' = "done"
  /\ idx' = 1
  /\ all_valid' = FALSE
  /\ details' = <<>>
  /\ trace' = <<>>
  /\ result' = [all_valid |-> FALSE, details |-> <<>>]
  /\ UNCHANGED <<jwks, kidless, now>>
  /\ UNCHANGED <<dvars, lvars, cvars, svars>>

\* verify(agent_card), lines 219-228: no trusted JWKS
VerifyNoJwks ==
  /\ pc = "idle"
  /\ ~jwks.loaded
  /\ \E c \in Cards :
       /\ Len(Signatures(c)) > 0
       /\ card' = c
  /\ pc' = "done"
  /\ idx' = 1
  /\ all_valid' = FALSE
  /\ details' = <<>>
  /\ trace' = <<>>
  /\ result' = [all_valid |-> FALSE,
                details |-> <<Info(FALSE, Unset, Unset, "No trusted JWKS available")>>]
  /\ UNCHANGED <<jwks, kidless, now>>
  /\ UNCHANGED <<dvars, lvars, cvars, svars>>

\* verify(agent_card), lines 219-233: up to the loop
VerifyBegin ==
  /\ pc = "idle"
  /\ jwks.loaded
  /\ \E c \in Cards :
       /\ Len(Signatures(c)) > 0
       /\ card' = CardAfterCandidates(c)
  /\ pc' = "loop"
  /\ idx' = 1
  /\ all_valid' = TRUE
  /\ details' = <<>>
  /\ trace' = <<>>
  /\ result' = NoResult
  /\ UNCHANGED <<jwks, kidless, now>>
  /\ UNCHANGED <<dvars, lvars, cvars, svars>>

\* one iteration of the loop, lines 234-286
VerifyIteration ==
  /\ pc = "loop"
  /\ idx <= Len(Signatures(card))
  /\ LET r == VerifyEnvelope(Signatures(card)[idx], CandidatePayloadB64s(card),
                             jwks.keys, kidless, now)
     IN /\ details' = Append(details, r.info)
        /\ trace' = Append(trace, r.obs)
        /\ all_valid' = NextAllValid(all_valid, r.info)
  /\ idx' = idx + 1
  /\ UNCHANGED <<jwks, kidless, now, pc, card, result>>
  /\ UNCHANGED <<dvars, lvars, cvars, svars>>

\* a verify that drops the first trusted key once it has been through a card
VerifyReturnPrunesKeys ==
  /\ pc = "loop"
  /\ idx > Len(Signatures(card))
  /\ result' = [all_valid |-> all_valid, details |-> details]
  /\ pc' = "done"
  /\ jwks' = [jwks EXCEPT !.keys = IF Len(@) = 0 THEN @ ELSE Tail(@)]
  /\ UNCHANGED <<kidless, now, card, idx, all_valid, details, trace>>
  /\ UNCHANGED <<dvars, lvars, cvars, svars>>

\* line 288
VerifyReturn ==
  /\ pc = "loop"
  /\ idx > Len(Signatures(card))
  /\ result' = [all_valid |-> all_valid, details |-> details]
  /\ pc' = "done"
  /\ UNCHANGED <<jwks, kidless, now, card, idx, all_valid, details, trace>>
  /\ UNCHANGED <<dvars, lvars, cvars, svars>>

\* the caller is done with the returned value; the call's locals are gone
Discard ==
  /\ pc = "done"
  /\ pc' = "idle"
  /\ card' = NoCard
  /\ idx' = 1
  /\ all_valid' = FALSE
  /\ details' = <<>>
  /\ trace' = <<>>
  /\ result' = NoResult
  /\ UNCHANGED <<jwks, kidless, now>>
  /\ UNCHANGED <<dvars, lvars, cvars, svars>>

Next ==
  \/ Tick
  \/ Discard
  \/ VerifyNoSignatures
  \/ VerifyNoJwks
  \/ VerifyBegin
  \/ VerifyIteration
  \/ VerifyReturn

Spec == Init /\ [][Next]_vars

(***************************************************************************)
(* Properties.  Sigs is the envelope list of the card under verification;  *)
(* details[i] and trace[i] belong to Sigs[i].                              *)
(***************************************************************************)
Sigs == Signatures(card)

Done == 1..Len(details)

Hdr(i) == ProtectedJson(Sigs[i].protected)

Jose(i) == JoseHeader(Hdr(i), Sigs[i].header)

Readable(i) == Sigs[i].protected.enc # "bad"

\* the key of the trusted set the JOSE header's kid selects, if there is one
Selects(j, i) ==
  \/ /\ jwks.keys[j].kid = Jose(i).kid
     /\ \A m \in 1..(j - 1) : jwks.keys[m].kid # Jose(i).kid
     /\ ~(Jose(i).kid = NoVal /\ kidless /\ Len(jwks.keys) = 1)
  \/ Jose(i).kid = NoVal /\ kidless /\ Len(jwks.keys) = 1 /\ j = 1

KeyFits(k, alg) ==
  /\ k.use \in {NoVal, "sig"}
  /\ alg = "RS256" => k.kty = "RSA"
  /\ alg = "ES256" => k.kty = "EC"

\* the temporal claims of envelope i are acceptable at time t, as the code
\* reads them
TimeOk(i, t) ==
  /\ IsNone(Hdr(i).exp) \/ (IsIntOrFloat(Hdr(i).exp) /\ Hdr(i).exp[2] >= t)
  /\ IsNone(Hdr(i).nbf) \/ (IsIntOrFloat(Hdr(i).nbf) /\ Hdr(i).nbf[2] <= t)
  /\ IsNone(Hdr(i).iat) \/ IsIntOrFloat(Hdr(i).iat)

NoCritical(i) == Hdr(i).crit \in {NoVal, "[]"} /\ Sigs[i].header.crit \in {NoVal, "[]"}

\* the signature of envelope i is one made with key k over the envelope's
\* protected blob and a canonical encoding of the card without signatures
SignedBy(i, k) ==
  /\ Sigs[i].signature.present
  /\ Sigs[i].signature.mat = k.mat
  /\ Sigs[i].signature.alg = Hdr(i).alg
  /\ Sigs[i].signature.prot = Sigs[i].protected
  /\ \E n \in 1..Len(CandidatePayloadB64s(card)) :
       Sigs[i].signature.payload = CandidatePayloadB64s(card)[n]

\* envelope i validates on its own at time t
Validates(i, t) ==
  /\ Sigs[i].protected.enc = "json"
  /\ Hdr(i).alg \in {"RS256", "ES256"}
  /\ NoCritical(i)
  /\ TimeOk(i, t)
  /\ \E j \in 1..Len(jwks.keys) :
       Selects(j, i) /\ KeyFits(jwks.keys[j], Hdr(i).alg) /\ SignedBy(i, jwks.keys[j])

\* C1: with a trusted key set, verify returns one detail per envelope, in
\* envelope order, each valid exactly when its envelope validates on its own,
\* and all_valid is true exactly when there is at least one envelope and
\* every detail is valid.
C1_AllMustPass ==
  (pc = "done" /\ jwks.loaded) =>
    /\ Len(result.details) = Len(Sigs)
    /\ \A i \in 1..Len(result.details) :
         /\ result.details[i].valid <=> Validates(i, trace[i].at)
         /\ Readable(i) => /\ result.details[i].alg = Hdr(i).alg
                           /\ result.details[i].kid = Jose(i).kid
    /\ result.all_valid <=>
         (Len(Sigs) >= 1 /\ \A i \in 1..Len(result.details) : result.details[i].valid)

\* C1 witness: a valid envelope and one whose kid is not in the trusted set
C1_Witness ==
  /\ pc = "done" /\ jwks.loaded /\ Len(Sigs) = 2
  /\ result.details[1].valid
  /\ ~result.details[2].valid
  /\ \A j \in 1..Len(jwks.keys) : jwks.keys[j].kid # Jose(2).kid
  /\ ~result.all_valid

\* C2: a card whose signatures are missing, null or an empty list is
\* returned not valid with no details, with or without a trusted key set.
NoSignatureList ==
  \/ ~HasKey(card.fields, "signatures")
  \/ Get(card.fields, "signatures")[1] = "null"
  \/ Get(card.fields, "signatures")[1] = "list" /\ Len(card.sigs) = 0

C2_NoSignaturesNotVerified ==
  (pc = "done" /\ NoSignatureList) => (~result.all_valid /\ result.details = <<>>)

\* C2 witness: a card with "signatures": null, verified with a key set loaded
C2_Witness ==
  /\ pc = "done" /\ jwks.loaded /\ Len(jwks.keys) > 0
  /\ HasKey(card.fields, "signatures")
  /\ Get(card.fields, "signatures")[1] = "null"
  /\ result = [all_valid |-> FALSE, details |-> <<>>]

\* envelope i declares no allow-listed algorithm in its protected header
DisallowedAlg(i) ==
  \/ Sigs[i].protected.enc \in {"none", "empty"}
  \/ Sigs[i].protected.enc = "json" /\ Hdr(i).alg \notin {"RS256", "ES256"}

\* C3 as stated: for a card whose every signature declares an algorithm
\* outside the allow-list, verify returns not valid and every detail records
\* the allow-list error.
C3_Original ==
  (pc = "done" /\ Len(Sigs) >= 1 /\ \A i \in 1..Len(Sigs) : DisallowedAlg(i)) =>
    /\ ~result.all_valid
    /\ \A n \in 1..Len(result.details) : result.details[n].error = "alg_not_allowed"

\* C3 amended: such a card is never valid; and with a trusted key set
\* configured (the only case in which envelopes are examined) the detail of
\* every envelope that declares an algorithm outside the allow-list is
\* invalid with the allow-list error, and no cryptographic check was tried.
C3_AllowList ==
  /\ \A i \in Done :
       DisallowedAlg(i) =>
         /\ ~details[i].valid
         /\ details[i].error = "alg_not_allowed"
         /\ trace[i].attempts = 0 /\ trace[i].crypto = 0
  /\ (pc = "done" /\ Len(Sigs) >= 1 /\ \A i \in 1..Len(Sigs) : DisallowedAlg(i)) =>
       /\ ~result.all_valid
       /\ jwks.loaded =>
            \A n \in 1..Len(result.details) : result.details[n].error = "alg_not_allowed"

\* C3 witness: an allow-listed algorithm given only in the unprotected header
C3_Witness ==
  /\ pc = "done" /\ Len(result.details) = 1
  /\ Sigs[1].protected.enc = "json"
  /\ Hdr(1).alg = NoVal /\ Sigs[1].header.alg = "RS256"
  /\ result.details[1].error = "alg_not_allowed"

\* the policy checks envelope i fails at time t
FailedChecks(i, t) ==
  {r \in {"alg_not_allowed"} : DisallowedAlg(i)}
    \cup {r \in {"crit_unsupported"} : ~NoCritical(i)}
    \cup {r \in {"expired"} :
            Hdr(i).exp[1] = "str" \/ (Hdr(i).exp[1] = "num" /\ Hdr(i).exp[2] < t)}
    \cup {r \in {"not_yet_valid"} :
            Hdr(i).nbf[1] = "str" \/ (Hdr(i).nbf[1] = "num" /\ Hdr(i).nbf[2] > t)}
    \cup {r \in {"invalid_iat"} : Hdr(i).iat[1] = "str"}

\* envelope i would validate if its temporal claims were acceptable
ValidButForTime(i) ==
  /\ Sigs[i].protected.enc = "json"
  /\ Hdr(i).alg \in {"RS256", "ES256"}
  /\ NoCritical(i)
  /\ \E j \in 1..Len(jwks.keys) :
       Selects(j, i) /\ KeyFits(jwks.keys[j], Hdr(i).alg) /\ SignedBy(i, jwks.keys[j])

\* C4: when a policy check of an envelope fails, no payload candidate is
\* tried for it and its detail is invalid with the reason of a failed check.
C4_PolicyBeforeCrypto ==
  \A i \in Done :
    (Readable(i) /\ FailedChecks(i, trace[i].at) # {}) =>
      /\ trace[i].attempts = 0 /\ trace[i].crypto = 0
      /\ ~details[i].valid
      /\ details[i].error \in FailedChecks(i, trace[i].at)

\* C4 witness: exp in the past, all else valid
C4_Witness ==
  \E i \in Done :
    /\ Hdr(i).exp[1] = "num" /\ Hdr(i).exp[2] < trace[i].at
    /\ ValidButForTime(i)
    /\ details[i].error = "expired" /\ trace[i].attempts = 0

\* C5: a detail is valid only if the envelope's signature was made with the
\* key of the trusted set that the header's kid selects; whatever the card
\* embeds, a signature by a key outside the trusted set never validates.
C5_TrustedKeysOnly ==
  \A i \in Done :
    details[i].valid =>
      \E j \in 1..Len(jwks.keys) :
        Selects(j, i) /\ Sigs[i].signature.mat = jwks.keys[j].mat

\* C5 witness: an envelope signed with the key it embeds as jwk, which is
\* not trusted, reached the verification loop and was not validated
C5_Witness ==
  \E i \in Done :
    /\ Jose(i).jwk # NoVal /\ Jose(i).jku # NoVal
    /\ Sigs[i].signature.present
    /\ Sigs[i].signature.mat = Jose(i).jwk
    /\ Sigs[i].signature.prot = Sigs[i].protected
    /\ \A j \in 1..Len(jwks.keys) : jwks.keys[j].mat # Jose(i).jwk
    /\ trace[i].attempts > 0
    /\ ~details[i].valid

\* C6: an envelope whose kid selects a trusted key with a declared use other
\* than "sig", or of a type that does not match the algorithm family, is
\* never valid, and its signature is never checked cryptographically.
C6_KeyUseAndType ==
  \A i \in Done :
    \A j \in 1..Len(jwks.keys) :
      (Selects(j, i) /\ ~KeyFits(jwks.keys[j], Jose(i).alg)) =>
        (~details[i].valid /\ trace[i].crypto = 0)

\* C6 witness: the selected key is declared for encryption, a key of the same
\* kid declared for signing follows it, and the envelope passed the policy
\* checks
C6_Witness ==
  \E i \in Done :
    /\ trace[i].attempts > 0
    /\ Len(jwks.keys) = 2
    /\ Selects(1, i) /\ jwks.keys[1].use = "enc"
    /\ jwks.keys[2].kid = jwks.keys[1].kid /\ SignedBy(i, jwks.keys[2])
    /\ ~details[i].valid

\* C7 as stated: every detail with valid = false carries an error.
C7_FailureHasReason ==
  \A i \in Done : ~details[i].valid => details[i].error # Unset

\* C8: exp before the time of the check, or nbf after it, makes the detail
\* invalid with an error and the card not valid; exp and nbf equal to the
\* time of the check raise no temporal error.
C8_ExpiryAndNotBefore ==
  /\ \A i \in Done :
       LET t == trace[i].at
       IN /\ (Readable(i) /\ (\/ Hdr(i).exp[1] = "num" /\ Hdr(i).exp[2] < t
                              \/ Hdr(i).nbf[1] = "num" /\ Hdr(i).nbf[2] > t)) =>
               (~details[i].valid /\ details[i].error # Unset)
          /\ (Hdr(i).exp \in {Absent, <<"num", t>>} /\ Hdr(i).nbf \in {Absent, <<"num", t>>}
                /\ IsNone(Hdr(i).iat)) =>
               (details[i].valid <=> ValidButForTime(i))
  /\ (pc = "done" /\ \E i \in 1..Len(Sigs) :
                       \/ Hdr(i).exp[1] = "num" /\ Hdr(i).exp[2] < T0
                       \/ Hdr(i).nbf[1] = "num" /\ Hdr(i).nbf[2] > T0 + MaxTick) =>
       (~result.all_valid /\ \E n \in 1..Len(result.details) :
                               result.details[n].error # Unset)

\* C8 witness: an envelope whose exp is the time of the check was validated
C8_Witness ==
  \E i \in Done : Hdr(i).exp = <<"num", trace[i].at>> /\ details[i].valid

\* a JSON string or a JSON boolean: present and not a number
NonNumeric(v) == v[1] \in {"str", "bool"}

\* C9 as stated, its rejection: an envelope whose exp, nbf or iat is present
\* and not numeric is never reported valid.
C9_NonNumericRejected ==
  \A i \in Done :
    (NonNumeric(Hdr(i).exp) \/ NonNumeric(Hdr(i).nbf) \/ NonNumeric(Hdr(i).iat)) =>
      ~details[i].valid

\* C10: an envelope with a non-empty crit, in the protected or in the
\* unprotected header, is invalid with an error and no payload candidate is
\* tried for it.
C10_CritFailClosed ==
  \A i \in Done :
    ~NoCritical(i) =>
      /\ ~details[i].valid /\ details[i].error # Unset
      /\ trace[i].attempts = 0 /\ trace[i].crypto = 0

\* C10 witness: crit in the unprotected header of an otherwise valid envelope
C10_Witness ==
  \E i \in Done :
    /\ Hdr(i).crit = NoVal /\ Sigs[i].header.crit = "[exp]"
    /\ Hdr(i).alg \in {"RS256", "ES256"}
    /\ \E j \in 1..Len(jwks.keys) :
         Selects(j, i) /\ KeyFits(jwks.keys[j], Hdr(i).alg) /\ SignedBy(i, jwks.keys[j])
    /\ details[i].error = "crit_unsupported"

\* envelope sig as its publisher would have made it with iat = v
WithIat(sig, v) ==
  [sig EXCEPT !.protected.json.iat = v,
              !.signature.prot =
                 IF sig.signature.prot = sig.protected
                 THEN [sig.protected EXCEPT !.json.iat = v]
                 ELSE sig.signature.prot]

OverAge(i) ==
  /\ Sigs[i].protected.enc = "json"
  /\ Hdr(i).iat[1] = "num"
  /\ trace[i].at - Hdr(i).iat[2] > MAX_SIGNATURE_AGE_SECONDS

\* C11: an iat older than the maximum signature age does not fail the
\* envelope: its detail has the validity and the error the same envelope has
\* with iat at the time of the check, and the only effect is the warning,
\* logged whenever the envelope passed the policy checks.
C11_OldIatOnlyFlagged ==
  \A i \in Done :
    OverAge(i) =>
      LET t == trace[i].at
          fresh == VerifyEnvelope(WithIat(Sigs[i], <<"num", t>>),
                                  CandidatePayloadB64s(card), jwks.keys, kidless, t)
      IN /\ details[i] = fresh.info
         /\ ~fresh.obs.aged
         /\ trace[i].aged <=> PolicyError(Sigs[i], t) = NoVal

\* C11 witness: an over-age envelope was validated and flagged
C11_Witness ==
  \E i \in Done : OverAge(i) /\ details[i].valid /\ trace[i].aged

(***************************************************************************)
(* Discovery: the cluster as oc shows it, URL resolution and the route     *)
(* index.  A URL is <<scheme, host>>; the empty tuple stands for both ""   *)
(* and None, which the code tests by truthiness only.                      *)
(***************************************************************************)
AGENT_LABEL_KEYS == <<"a2a.agent.name", "ai.openshift.io/agent.name", "app">>

DEFAULT_AGENT_ENDPOINT == "/.well-known/agent.json"

NoUrl == <<>>

Url(scheme, host) == <<scheme, host>>

\* a Route: labels[k] is the value of label AGENT_LABEL_KEYS[k], a2a is the
\* label a2a.agent=true, to is spec.to.name; NoVal is a missing member
Route(ns, name, host, tls, labels, to, a2a) ==
  [ns |-> ns, name |-> name, host |-> host, tls |-> tls,
   labels |-> labels, to |-> to, a2a |-> a2a]

NoLabels == <<NoVal, NoVal, NoVal>>

\* an Agent CR: metadata.name, metadata.namespace, spec.name, status.url,
\* spec.sourceRef or {} ([kind, name], NoVal for a missing or null member)
AgentCr(name, ns, agent_name, url, source_ref) ==
  [name |-> name, namespace |-> ns, agent_name |-> agent_name,
   url |-> url, sourceRef |-> source_ref]

NoRef == [kind |-> NoVal, name |-> NoVal]

\* what can go wrong with one oc invocation
OcFaults == {"none", "timeout", "failed", "unparsable"}

\* (v or "").strip()
OrEmptyStrip(v) == IF v \in {NoVal, "", " "} THEN "" ELSE v

\* get_route: the routes returned, none for None (every failure is None)
GetRoute(cl, name, ns, fault) ==
  LET found == SelectSeq(cl.routes, LAMBDA r : r.ns = ns /\ r.name = name)
  IN IF fault # "none" \/ Len(found) = 0 THEN <<>> ELSE <<found[1]>>

\* get_routes: [raised, items]; scope is a namespace or "all", a2a_only is
\* the default label selector a2a.agent=true
GetRoutes(cl, scope, a2a_only, fault) ==
  IF fault # "none"
  THEN [raised |-> TRUE, items |-> <<>>]
  ELSE [raised |-> FALSE,
        items |-> SelectSeq(cl.routes,
                    LAMBDA r : (scope = "all" \/ r.ns = scope) /\ (a2a_only => r.a2a))]

BuildUrlFromRoute(route_spec) ==
  IF route_spec.host \in {NoVal, ""}
  THEN NoUrl
  ELSE Url(IF route_spec.tls THEN "https" ELSE "http", route_spec.host)

\* resolve_url_from_source_ref without its try/except: a failing get_routes
\* propagates
ResolveUrlFromSourceRefUnguarded(cl, ns, source_ref, fault) ==
  LET kind == OrEmptyStrip(source_ref.kind)
      name == OrEmptyStrip(source_ref.name)
  IN IF kind = "" \/ name = ""
     THEN [url |-> NoUrl, oc |-> <<>>, raised |-> FALSE]
     ELSE IF kind = "Route"
     THEN LET route == GetRoute(cl, name, ns, fault)
          IN [url |-> IF Len(route) = 0 THEN NoUrl ELSE BuildUrlFromRoute(route[1]),
              oc |-> <<"get route">>, raised |-> FALSE]
     ELSE IF kind = "Service"
     THEN LET got == GetRoutes(cl, ns, FALSE, fault)
              hits == SelectSeq(got.items, LAMBDA r : r.to = name)
          IN [url |-> IF got.raised \/ Len(hits) = 0
                      THEN NoUrl ELSE BuildUrlFromRoute(hits[1]),
              oc |-> <<"get routes">>, raised |-> got.raised]
     ELSE [url |-> NoUrl, oc |-> <<>>, raised |-> FALSE]

\* resolve_url_from_source_ref: [url, oc, raised], oc the oc invocations
\* made; the except of lines 420-421 swallows what the lookups raise
ResolveUrlFromSourceRef(cl, ns, source_ref, fault) ==
  LET kind == OrEmptyStrip(source_ref.kind)
      name == OrEmptyStrip(source_ref.name)
  IN IF kind = "" \/ name = ""
     THEN [url |-> NoUrl, oc |-> <<>>, raised |-> FALSE]
     ELSE IF kind = "Route"
     THEN LET route == GetRoute(cl, name, ns, fault)
          IN [url |-> IF Len(route) = 0 THEN NoUrl ELSE BuildUrlFromRoute(route[1]),
              oc |-> <<"get route">>, raised |-> FALSE]
     ELSE IF kind = "Service"
     THEN LET got == GetRoutes(cl, ns, FALSE, fault)
              hits == SelectSeq(got.items, LAMBDA r : r.to = name)
          IN [url |-> IF got.raised \/ Len(hits) = 0
                      THEN NoUrl ELSE BuildUrlFromRoute(hits[1]),
              oc |-> <<"get routes">>, raised |-> FALSE]
     ELSE [url |-> NoUrl, oc |-> <<>>, raised |-> FALSE]

\* a resource as the controller's watchers deliver it: kind, metadata.name,
\* metadata.namespace, and for a Route spec.host and spec.tls
Resource(kind, name, ns, host, tls) ==
  [kind |-> kind, name |-> name, ns |-> ns, host |-> host, tls |-> tls]

\* AgentController.get_agent_url (controller.py); fault is the ApiException
\* of the route listing
GetAgentUrl(cl, resource, fault) ==
  IF resource.kind = "Route"
  THEN BuildUrlFromRoute(resource)
  ELSE IF resource.kind = "Service"
  THEN LET routes == GetRoutes(cl, resource.ns, FALSE, fault)
           hits == SelectSeq(routes.items,
                     LAMBDA r : r.to = resource.name /\ r.host \notin {NoVal, ""})
       IN IF routes.raised \/ Len(hits) = 0
          THEN NoUrl
          ELSE BuildUrlFromRoute(hits[1])
  ELSE NoUrl

\* index[key] = url
IndexSet(index, key, url) ==
  [k \in DOMAIN index \cup {key} |-> IF k = key THEN url ELSE index[k]]

\* an insertion that replaces the entry already under the key
IndexOverwrite(index, key, url) ==
  [k \in DOMAIN index \cup {key} |-> IF k = key THEN url ELSE index[k]]

\* index.setdefault(key, url)
IndexSetDefault(index, key, url) ==
  IF key \in DOMAIN index THEN index ELSE IndexSet(index, key, url)

\* index.get(key)
IndexGet(index, key) == IF key \in DOMAIN index THEN index[key] ELSE NoUrl

RECURSIVE IndexLabels(_, _, _)
\* the loop over AGENT_LABEL_KEYS for one route, from key number k
IndexLabels(index, route, k) ==
  IF k > Len(AGENT_LABEL_KEYS)
  THEN index
  ELSE IndexLabels(IF route.labels[k] \in {NoVal, ""}
                   THEN index
                   ELSE IndexSet(index, <<route.ns, route.labels[k]>>,
                                 Url("https", route.host)),
                   route, k + 1)

RECURSIVE IndexRoutes(_, _, _)
IndexRoutes(index, routes, i) ==
  IF i > Len(routes)
  THEN index
  ELSE LET route == routes[i]
       IN IF route.ns \in {NoVal, ""} \/ route.host \in {NoVal, ""}
          THEN IndexRoutes(index, routes, i + 1)
          ELSE LET labelled == IndexLabels(index, route, 1)
               IN IndexRoutes(IF route.name \in {NoVal, ""}
                              THEN labelled
                              ELSE IndexSetDefault(labelled, <<route.ns, route.name>>,
                                                   Url("https", route.host)),
                              routes, i + 1)

\* RouteIndexBuilder.build_route_index
BuildRouteIndex(routes) == IndexRoutes(<<>>, routes, 1)

\* spec.get("name", "unknown")
AgentName(agent_cr) ==
  IF agent_cr.agent_name = NoVal THEN "unknown" ELSE agent_cr.agent_name

\* the URL resolution looking up the sourceRef and the index whatever
\* status.url holds
ResolveUrlAnew(cl, index, agent_cr, fault) ==
  LET ns == agent_cr.namespace
      ref == ResolveUrlFromSourceRef(cl, ns, agent_cr.sourceRef, fault)
      by_agent == IndexGet(index, <<ns, AgentName(agent_cr)>>)
  IN IF ref.url # NoUrl
     THEN [url |-> ref.url, tier |-> "sourceRef", consulted |-> <<"sourceRef">>,
           oc |-> ref.oc, raised |-> FALSE]
     ELSE IF by_agent # NoUrl
     THEN [url |-> by_agent, tier |-> "agent_name",
           consulted |-> <<"sourceRef", "agent_name">>, oc |-> ref.oc, raised |-> FALSE]
     ELSE [url |-> agent_cr.url, tier |-> "status",
           consulted |-> <<"sourceRef", "agent_name">>, oc |-> ref.oc, raised |-> FALSE]

\* the URL resolution trying the index under the CR's own name first
ResolveUrlCrNameFirst(cl, index, agent_cr, fault) ==
  IF agent_cr.url # NoUrl
  THEN [url |-> agent_cr.url, tier |-> "status", consulted |-> <<>>, oc |-> <<>>,
        raised |-> FALSE]
  ELSE LET ns == agent_cr.namespace
           ref == ResolveUrlFromSourceRef(cl, ns, agent_cr.sourceRef, fault)
           by_agent == IndexGet(index, <<ns, AgentName(agent_cr)>>)
           by_cr == IndexGet(index, <<ns, agent_cr.name>>)
       IN IF ref.url # NoUrl
          THEN [url |-> ref.url, tier |-> "sourceRef",
                consulted |-> <<"sourceRef">>, oc |-> ref.oc, raised |-> FALSE]
          ELSE IF by_cr # NoUrl
          THEN [url |-> by_cr, tier |-> "cr_name",
                consulted |-> <<"sourceRef", "cr_name">>, oc |-> ref.oc,
                raised |-> FALSE]
          ELSE [url |-> by_agent,
                tier |-> IF by_agent # NoUrl THEN "agent_name" ELSE "none",
                consulted |-> <<"sourceRef", "cr_name", "agent_name">>, oc |-> ref.oc,
                raised |-> FALSE]

\* the loop body's URL resolution, lines 581-593: [url, tier, consulted, oc,
\* raised]; consulted lists the tiers tried in order, oc the oc invocations
\* made, raised tells that the sourceRef lookup raised
ResolveUrl(cl, index, agent_cr, fault) ==
  IF agent_cr.url # NoUrl
  THEN [url |-> agent_cr.url, tier |-> "status", consulted |-> <<>>, oc |-> <<>>,
        raised |-> FALSE]
  ELSE LET ns == agent_cr.namespace
           ref == ResolveUrlFromSourceRef(cl, ns, agent_cr.sourceRef, fault)
           by_agent == IndexGet(index, <<ns, AgentName(agent_cr)>>)
           by_cr == IndexGet(index, <<ns, agent_cr.name>>)
       IN IF ref.raised
          THEN [url |-> NoUrl, tier |-> "none", consulted |-> <<"sourceRef">>,
                oc |-> ref.oc, raised |-> TRUE]
          ELSE IF ref.url # NoUrl
          THEN [url |-> ref.url, tier |-> "sourceRef",
                consulted |-> <<"sourceRef">>, oc |-> ref.oc, raised |-> FALSE]
          ELSE IF by_agent # NoUrl
          THEN [url |-> by_agent, tier |-> "agent_name",
                consulted |-> <<"sourceRef", "agent_name">>, oc |-> ref.oc,
                raised |-> FALSE]
          ELSE IF by_cr # NoUrl
          THEN [url |-> by_cr, tier |-> "cr_name",
                consulted |-> <<"sourceRef", "agent_name", "cr_name">>, oc |-> ref.oc,
                raised |-> FALSE]
          ELSE [url |-> NoUrl, tier |-> "none",
                consulted |-> <<"sourceRef", "agent_name", "cr_name">>, oc |-> ref.oc,
                raised |-> FALSE]

(***************************************************************************)
(* Discovery: fetching and verifying one agent's card.  Python's True,     *)
(* False and None of the optional AgentInfo members are "True", "False"    *)
(* and NoVal.                                                              *)
(***************************************************************************)
PyBool(b) == IF b THEN "True" ELSE "False"

RECURSIVE VerifyLoop(_, _, _, _, _, _, _)
\* verify's for loop from envelope i on: [ok, details]
VerifyLoop(sigs, candidates, key_set, kl, current_time, i, acc) ==
  IF i > Len(sigs)
  THEN acc
  ELSE LET r == VerifyEnvelope(sigs[i], candidates, key_set, kl, current_time)
       IN VerifyLoop(sigs, candidates, key_set, kl, current_time, i + 1,
                     [ok |-> NextAllValid(acc.ok, r.info),
                      details |-> Append(acc.details, r.info)])

\* SignatureVerifier.verify as one call: [ok, details]
Verify(agent_card, trusted, kl, current_time) ==
  LET sigs == Signatures(agent_card)
  IN IF Len(sigs) = 0
     THEN [ok |-> FALSE, details |-> <<>>]
     ELSE IF ~trusted.loaded
     THEN [ok |-> FALSE,
           details |-> <<Info(FALSE, Unset, Unset, "No trusted JWKS available")>>]
     ELSE VerifyLoop(sigs, CandidatePayloadB64s(agent_card), trusted.keys, kl,
                     current_time, 1, [ok |-> TRUE, details |-> <<>>])

\* verify_if_required: the message raised, NoVal for a normal return
VerifyIfRequired(agent_card, trusted, kl, current_time, st) ==
  IF ~st
  THEN NoVal
  ELSE IF ~trusted.loaded
  THEN "A2A_REQUIRE_VERIFIED_CARD is true but no JWKS configured"
  ELSE IF ~Verify(agent_card, trusted, kl, current_time).ok
  THEN "AgentCard signatures did not verify"
  ELSE NoVal

NoVerification == [kind |-> "none", details |-> <<>>, error |-> NoVal]

AgentInfo(agent_name, ns, url, agent_card_url) ==
  [agent_name |-> agent_name, namespace |-> ns, url |-> url,
   agent_card_url |-> agent_card_url,
   endpoint_accessible |-> NoVal,
   signature_verified |-> NoVal,
   signature_verification |-> NoVerification]

\* what client.get(agent_card_url) meets: an exception (kind "error"), or a
\* response with a status and a body that parses to a card or does not
Response(kind, status, body, c) ==
  [kind |-> kind, status |-> status, body |-> body, card |-> c]

NoResponse == Response("none", 0, "none", NoCard)

\* lines 517-518 reporting no key set as a failed verification
SkippedAsFailed(agent_info) ==
  [agent_info EXCEPT
     !.signature_verified = "False",
     !.signature_verification =
        [kind |-> "details", details |-> <<>>, error |-> NoVal]]

\* lines 517-518: no key set
Skipped(agent_info) ==
  [agent_info EXCEPT
     !.signature_verified = NoVal,
     !.signature_verification =
        [kind |-> "skipped", details |-> <<>>, error |-> "No trusted JWKS configured"]]

\* the except branch without the re-raise of lines 534-535
CaughtQuietly(agent_info, verify_signatures, st, e) ==
  [info |-> [agent_info EXCEPT
               !.signature_verified = IF verify_signatures THEN "False" ELSE @,
               !.signature_verification =
                  IF verify_signatures
                  THEN [kind |-> "error", details |-> <<>>, error |-> e]
                  ELSE @,
               !.endpoint_accessible = "False"],
   raised |-> NoVal,
   fetched |-> TRUE]

\* the except branch recording the error whether or not signatures were asked for
CaughtAlways(agent_info, verify_signatures, st, e) ==
  [info |-> [agent_info EXCEPT
               !.signature_verified = "False",
               !.signature_verification =
                  [kind |-> "error", details |-> <<>>, error |-> e],
               !.endpoint_accessible = "False"],
   raised |-> IF st THEN e ELSE NoVal,
   fetched |-> TRUE]

\* the except branch, lines 529-535: [info, raised, fetched]
Caught(agent_info, verify_signatures, st, e) ==
  [info |-> [agent_info EXCEPT
               !.signature_verified = IF verify_signatures THEN "False" ELSE @,
               !.signature_verification =
                  IF verify_signatures
                  THEN [kind |-> "error", details |-> <<>>, error |-> e]
                  ELSE @,
               !.endpoint_accessible = "False"],
   raised |-> IF st THEN e ELSE NoVal,
   fetched |-> TRUE]

\* _verify_endpoint_and_signature: [info, raised, fetched]; raised is the
\* cause of "Failed to verify agent ...", fetched tells whether the card
\* URL was requested
VerifyEndpointAndSignature(agent_info, agent_card_url, verify_endpoints, verify_signatures, trusted, kl, current_time, st, resp) ==
  IF ~(verify_endpoints \/ verify_signatures) \/ agent_card_url = NoUrl
  THEN [info |-> IF verify_endpoints
                 THEN [agent_info EXCEPT !.endpoint_accessible = "False"]
                 ELSE agent_info,
        raised |-> NoVal, fetched |-> FALSE]
  ELSE IF resp.kind = "error"
  THEN Caught(agent_info, verify_signatures, st, "connect error")
  ELSE LET reached == [agent_info EXCEPT
                         !.endpoint_accessible = PyBool(resp.status = 200)]
       IN IF ~(verify_signatures /\ resp.status = 200)
          THEN [info |-> reached, raised |-> NoVal, fetched |-> TRUE]
          ELSE IF resp.body # "card"
          THEN Caught(reached, verify_signatures, st, "invalid json")
          ELSE IF ~trusted.loaded
          THEN LET skipped == Skipped(reached)
               IN IF st
                  THEN Caught(skipped, verify_signatures, st,
                              "A2A_REQUIRE_VERIFIED_CARD is true but no JWKS configured")
                        
                  ELSE [info |-> skipped, raised |-> NoVal, fetched |-> TRUE]
          ELSE LET v == Verify(resp.card, trusted, kl, current_time)
                   checked == [reached EXCEPT
                                 !.signature_verified = PyBool(v.ok),
                                 !.signature_verification =
                                    [kind |-> "details", details |-> v.details,
                                     error |-> NoVal]]
               IN IF ~v.ok /\ st
                  THEN Caught(checked, verify_signatures, st,
                              "AgentCard signatures did not verify")
                        
                  ELSE [info |-> checked, raised |-> NoVal, fetched |-> TRUE]

(***************************************************************************)
(* Discovery inputs.  Agent CRs and Routes have the member types of their  *)
(* CRDs (strings, or a missing member): a sourceRef that is not an object  *)
(* or whose kind or name is not a string is not among them.  Discovery     *)
(* runs over all namespaces, and the cluster does not change during a      *)
(* pass.                                                                   *)
(***************************************************************************)
MaxAgents == 2

StatusUrl == Url("https", "s.example.com")

\* labelled alpha, served with TLS
RouteAlpha ==
  Route("ns1", "alpha-route", "a.example.com", TRUE, <<"alpha", NoVal, NoVal>>, "alpha-svc", TRUE)

\* named beta, no identity label, no TLS
RouteBeta == Route("ns1", "beta", "b.example.com", FALSE, NoLabels, "beta-svc", TRUE)

\* not admitted yet: no host
RouteNoHost == Route("ns1", "nohost", NoVal, FALSE, <<NoVal, NoVal, "zeta">>, "zeta-svc", TRUE)

\* not labelled a2a.agent=true
RoutePlain == Route("ns1", "plain", "c.example.com", TRUE, NoLabels, "plain-svc", FALSE)

\* another namespace's route of the same names
RouteOther ==
  Route("ns2", "beta", "o.example.com", TRUE, <<NoVal, "alpha", NoVal>>, "beta-svc", TRUE)

\* a second route to the service of RouteNoHost, admitted
RouteZeta == Route("ns1", "zeta-route", "z.example.com", TRUE, NoLabels, "zeta-svc", FALSE)

RouteLists ==
  { <<RouteAlpha, RouteBeta, RouteNoHost, RoutePlain, RouteOther>>,
    <<RouteOther, RouteNoHost, RouteBeta, RouteZeta>>,
    <<>> }

SourceRefs ==
  { NoRef }
    \cup { [kind |-> "Route", name |-> n] : n \in {"beta", "nohost", "plain", "missing"} }
    \cup { [kind |-> "Service", name |-> n] : n \in {"beta-svc", "zeta-svc", "missing"} }
    \cup { [kind |-> k, name |-> "beta"] : k \in {NoVal, " ", "Deployment"} }
    \cup { [kind |-> "Route", name |-> n] : n \in {NoVal, " "} }

AgentCrs ==
  { AgentCr(name, "ns1", agent_name, url, ref) :
      name \in {"beta", "zeta-cr"}, agent_name \in {"alpha", "zeta", NoVal},
      url \in {NoUrl, StatusUrl}, ref \in SourceRefs }

\* with a status URL, found by the index, found nowhere
SomeAgentCrs ==
  { AgentCr("one", "ns1", "one", StatusUrl, NoRef),
    AgentCr("two", "ns1", "alpha", NoUrl, NoRef),
    AgentCr("three", "ns1", "zeta", NoUrl, NoRef) }

AgentCrSeqs(n) == UNION { [1..k -> SomeAgentCrs] : k \in 0..n }

\* the clusters of the discovery passes over several agents
Clusters ==
  { [agents |-> crs, routes |-> <<RouteAlpha, RouteBeta>>] : crs \in AgentCrSeqs(MaxAgents) }

\* the clusters of one agent, for the URL resolution
ClustersOfOne ==
  { [agents |-> <<cr>>, routes |-> rs] : cr \in AgentCrs, rs \in RouteLists }
    \cup { NoCluster }

MaxRoutes == 3

\* named alpha, no identity label, no TLS
RouteNamedAlpha == Route("ns1", "alpha", "n.example.com", FALSE, NoLabels, "alpha-svc", TRUE)

\* without metadata.namespace
RouteNoNs == Route(NoVal, "gamma", "g.example.com", TRUE, <<"gamma", NoVal, NoVal>>, "gamma-svc", TRUE)

IndexedRoutes == { RouteAlpha, RouteNamedAlpha, RouteBeta, RouteNoHost, RouteNoNs }

RouteSeqs(n) == UNION { [1..k -> IndexedRoutes] : k \in 0..n }

\* the clusters of one agent and every order of a few routes, for the index
ClustersOfRoutes ==
  { [agents |-> <<AgentCr("alpha", "ns1", "alpha", NoUrl, NoRef)>>, routes |-> rs] :
      rs \in RouteSeqs(MaxRoutes) }
    \cup { NoCluster }

SignedCard == Card(Fields1, <<SpecRS>>)

DiscoveryCards ==
  { SignedCard,
    Card(Fields1, <<SpecRS, SpecES>>),
    Card(Fields1, <<[SpecRS EXCEPT !.sig = "tampered"]>>),
    Card(FieldsNoSignatures, <<>>) }

Responses ==
  { Response("error", 0, "none", NoCard),
    Response("http", 404, "none", NoCard),
    Response("http", 200, "unparsable", NoCard) }
    \cup { Response("http", 200, "card", c) : c \in DiscoveryCards }

DiscoveryKeySets == { NoJwks, Jwks(<<K1, K2>>), Jwks(<<K2>>) }

(***************************************************************************)
(* Discovery: the calls.  The verifier of a pass is the one constructed    *)
(* from the environment (jwks); no verify call of its own is in progress.  *)
(***************************************************************************)
vvars == <<jwks, kidless, now, pc, card, idx, all_valid, details, trace, result>>

VerifierIdle ==
  /\ kidless = FALSE
  /\ now = T0
  /\ pc = "idle"
  /\ card = NoCard
  /\ idx = 1
  /\ all_valid = FALSE
  /\ details = <<>>
  /\ trace = <<>>
  /\ result = NoResult

InitDiscover ==
  /\ jwks \in DiscoveryKeySets
  /\ VerifierIdle
  /\ strict \in BOOLEAN
  /\ cluster \in Clusters
  /\ DiscoveryIdle
  /\ LoaderIdle
  /\ ControllerIdle
  /\ SignerIdle

InitResolve ==
  /\ jwks = Jwks(<<K1, K2>>)
  /\ VerifierIdle
  /\ strict \in BOOLEAN
  /\ cluster \in ClustersOfOne
  /\ DiscoveryIdle
  /\ LoaderIdle
  /\ ControllerIdle
  /\ SignerIdle

InitIndex ==
  /\ jwks = Jwks(<<K1, K2>>)
  /\ VerifierIdle
  /\ strict = FALSE
  /\ cluster \in ClustersOfRoutes
  /\ DiscoveryIdle
  /\ LoaderIdle
  /\ ControllerIdle
  /\ SignerIdle

\* agents.append(agent_info.to_dict())
NextAgents(list, agent_info) == Append(list, agent_info)

\* what _discover_agents_impl raises before its loop, lines 546-570
PassErrors ==
  { "Not logged into OpenShift", "OpenShift command failed",
    "Timeout discovering agents", "Failed to parse OpenShift response",
    "A2A_TRUSTED_JWKS_JSON is not valid JSON" }

\* f"{url}{endpoint}" whatever url holds
AgentCardUrlAlways(url) == Append(url, DEFAULT_AGENT_ENDPOINT)

\* f"{url}{endpoint}" if url else ""
AgentCardUrl(url) == IF url = NoUrl THEN NoUrl ELSE Append(url, DEFAULT_AGENT_ENDPOINT)

\* _discover_agents_impl, lines 546-570: a failure before the loop
DiscoverFail ==
  /\ dpc = "idle"
  /\ \E ve \in BOOLEAN, vs \in BOOLEAN, e \in PassErrors :
       /\ (e = "A2A_TRUSTED_JWKS_JSON is not valid JSON") => (vs /\ cluster.agents # <<>>)
       /\ params' = [verify_endpoints |-> ve, verify_signatures |-> vs]
       /\ outcome' = [op |-> "discover", arg |-> <<>>, raised |-> e, value |-> <<>>]
  /\ dpc' = "raised"
  /\ UNCHANGED <<strict, cluster, agent_crs, route_index, agents, dlog>>
  /\ UNCHANGED <<vvars, lvars, cvars, svars>>

\* _discover_agents_impl, lines 546-558: no Agent CR
DiscoverNoAgents ==
  /\ dpc = "idle"
  /\ cluster.agents = <<>>
  /\ \E ve \in BOOLEAN, vs \in BOOLEAN :
       params' = [verify_endpoints |-> ve, verify_signatures |-> vs]
  /\ outcome' = [op |-> "discover", arg |-> <<>>, raised |-> NoVal, value |-> <<>>]
  /\ dpc' = "returned"
  /\ UNCHANGED <<strict, cluster, agent_crs, route_index, agents, dlog>>
  /\ UNCHANGED <<vvars, lvars, cvars, svars>>

\* _discover_agents_impl, lines 546-570: up to the loop
DiscoverBegin ==
  /\ dpc = "idle"
  /\ cluster.agents # <<>>
  /\ \E ve \in BOOLEAN, vs \in BOOLEAN, fault \in OcFaults :
       /\ params' = [verify_endpoints |-> ve, verify_signatures |-> vs]
       /\ LET fallback_routes == GetRoutes(cluster, "all", TRUE, fault)
          IN route_index' = IF fallback_routes.raised
                            THEN <<>>
                            ELSE BuildRouteIndex(fallback_routes.items)
  /\ agent_crs' = cluster.agents
  /\ agents' = <<>>
  /\ dlog' = <<>>
  /\ dpc' = "loop"
  /\ UNCHANGED <<strict, cluster, outcome>>
  /\ UNCHANGED <<vvars, lvars, cvars, svars>>

\* one iteration of the loop, lines 572-614
DiscoverAgent ==
  /\ dpc = "loop"
  /\ Len(agents) < Len(agent_crs)
  /\ \E fault \in OcFaults, resp \in Responses :
       \E agent_cr \in {agent_crs[Len(agents) + 1]} :
       \E resolved \in {ResolveUrl(cluster, route_index, agent_cr, fault)} :
       \E agent_info \in {AgentInfo(AgentName(agent_cr), agent_cr.namespace,
                                    resolved.url, AgentCardUrl(resolved.url))} :
       \E v \in {VerifyEndpointAndSignature(agent_info, agent_info.agent_card_url,
                                            params.verify_endpoints,
                                            params.verify_signatures,
                                            jwks, kidless, now, strict, resp)} :
       \E raised \in {IF resolved.raised THEN "Timeout discovering routes" ELSE v.raised} :
          /\ dlog' = Append(dlog,
                       [cr |-> agent_cr, resolved |-> resolved,
                        fault |-> IF resolved.oc = <<>> THEN "none" ELSE fault,
                        resp |-> IF v.fetched /\ ~resolved.raised
                                 THEN resp ELSE NoResponse,
                        raised |-> raised, info |-> v.info])
          /\ IF raised = NoVal
             THEN /\ agents' = NextAgents(agents, v.info)
                  /\ UNCHANGED <<dpc, outcome>>
             ELSE /\ dpc' = "raised"
                  /\ outcome' = [op |-> "discover", arg |-> <<>>,
                                 raised |-> raised, value |-> <<>>]
                  /\ UNCHANGED agents
  /\ UNCHANGED <<strict, cluster, params, agent_crs, route_index>>
  /\ UNCHANGED <<vvars, lvars, cvars, svars>>

\* line 616
DiscoverReturn ==
  /\ dpc = "loop"
  /\ Len(agents) >= Len(agent_crs)
  /\ outcome' = [op |-> "discover", arg |-> <<>>, raised |-> NoVal, value |-> agents]
  /\ dpc' = "returned"
  /\ UNCHANGED <<strict, cluster, params, agent_crs, route_index, agents, dlog>>
  /\ UNCHANGED <<vvars, lvars, cvars, svars>>

\* SignatureVerifier().verify_if_required(agent_card)
VerifyIfRequiredCall ==
  /\ dpc = "idle"
  /\ \E c \in DiscoveryCards :
       LET e == VerifyIfRequired(c, jwks, kidless, now, strict)
       IN /\ outcome' = [op |-> "verify_if_required", arg |-> <<c>>,
                         raised |-> e, value |-> <<>>]
          /\ dpc' = IF e = NoVal THEN "returned" ELSE "raised"
  /\ UNCHANGED <<strict, cluster, params, agent_crs, route_index, agents, dlog>>
  /\ UNCHANGED <<vvars, lvars, cvars, svars>>

\* the caller is done with the call's outcome; the call's locals are gone
DiscoverDiscard ==
  /\ dpc \in {"returned", "raised"}
  /\ dpc' = "idle"
  /\ params' = NoParams
  /\ agent_crs' = <<>>
  /\ route_index' = <<>>
  /\ agents' = <<>>
  /\ dlog' = <<>>
  /\ outcome' = NoOutcome
  /\ UNCHANGED <<strict, cluster>>
  /\ UNCHANGED <<vvars, lvars, cvars, svars>>

NextDiscover ==
  \/ DiscoverFail
  \/ DiscoverNoAgents
  \/ DiscoverBegin
  \/ DiscoverAgent
  \/ DiscoverReturn
  \/ VerifyIfRequiredCall
  \/ DiscoverDiscard

SpecDiscover == InitDiscover /\ [][NextDiscover]_vars

SpecResolve == InitResolve /\ [][NextDiscover]_vars

SpecIndex == InitIndex /\ [][NextDiscover]_vars

DiscoverTypeOk ==
  /\ dpc \in {"idle", "loop", "returned", "raised"}
  /\ Len(agents) <= Len(agent_crs)
  /\ Len(dlog) \in {Len(agents), Len(agents) + 1}

(***************************************************************************)
(* SignatureVerifier.__init__ and _load_trusted_jwks.  An environment      *)
(* variable is NoVal when unset, else its text; the file system and the    *)
(* key server are fixed: two files and three URLs.                         *)
(***************************************************************************)
InlineJwks == Jwks(<<K1, K2>>)

FileJwks == Jwks(<<K2>>)

UrlJwks == Jwks(<<K1>>)

\* json.loads / json.load / Response.json of a text: [raised, value]
JsonLoads(text) ==
  CASE text = "{keys:[k1,k2]}" -> [raised |-> FALSE, value |-> InlineJwks]
    [] text = "{keys:[k2]}" -> [raised |-> FALSE, value |-> FileJwks]
    [] text = "{keys:[k1]}" -> [raised |-> FALSE, value |-> UrlJwks]
    [] OTHER -> [raised |-> TRUE, value |-> NoJwks]

\* os.path.exists
PathExists(path) == path \in {"/etc/jwks.json", "/etc/broken.json"}

\* open(path).read()
FileText(path) == IF path = "/etc/jwks.json" THEN "{keys:[k2]}" ELSE "{keys:"

\* client.get(url).raise_for_status(): [raised, text]
HttpGet(url) ==
  CASE url = "https://keys/jwks" -> [raised |-> FALSE, text |-> "{keys:[k1]}"]
    [] url = "https://keys/page" -> [raised |-> FALSE, text |-> "<html>"]
    [] OTHER -> [raised |-> TRUE, text |-> ""]

Loaded(value, src) == [raised |-> FALSE, value |-> value, source |-> src]

LoadRaised(src) == [raised |-> TRUE, value |-> NoJwks, source |-> src]

\* a loader that goes on to the next source when one cannot be read
LoadTrustedJwksFallingBack(env) ==
  IF Truthy(env.json) /\ ~JsonLoads(env.json).raised
  THEN Loaded(JsonLoads(env.json).value, "json")
  ELSE IF Truthy(env.path) /\ PathExists(env.path) /\ ~JsonLoads(FileText(env.path)).raised
  THEN Loaded(JsonLoads(FileText(env.path)).value, "path")
  ELSE IF Truthy(env.url) /\ ~HttpGet(env.url).raised
          /\ ~JsonLoads(HttpGet(env.url).text).raised
  THEN Loaded(JsonLoads(HttpGet(env.url).text).value, "url")
  ELSE Loaded(NoJwks, "none")

\* _load_trusted_jwks, lines 141-160: [raised, value, source]
LoadTrustedJwks(env) ==
  IF Truthy(env.json)
  THEN IF JsonLoads(env.json).raised
       THEN LoadRaised("json")
       ELSE Loaded(JsonLoads(env.json).value, "json")
  ELSE IF Truthy(env.path) /\ PathExists(env.path)
  THEN IF JsonLoads(FileText(env.path)).raised
       THEN LoadRaised("path")
       ELSE Loaded(JsonLoads(FileText(env.path)).value, "path")
  ELSE IF Truthy(env.url)
  THEN IF HttpGet(env.url).raised \/ JsonLoads(HttpGet(env.url).text).raised
       THEN LoadRaised("url")
       ELSE Loaded(JsonLoads(HttpGet(env.url).text).value, "url")
  ELSE Loaded(NoJwks, "none")

\* line 137, `jwks or ...`: None is falsy (an empty dict is too, and takes
\* the same branch)
GivenJwks == { NoJwks, Jwks(<<K2>>), Jwks(<<K1, K2>>) }

Falsy(arg) == arg = NoJwks

Environs ==
  [json : {NoVal, "", "{keys:[k1,k2]}", "{keys:"},
   path : {NoVal, "", "/etc/jwks.json", "/etc/broken.json", "/etc/missing.json"},
   url : {NoVal, "", "https://keys/jwks", "https://keys/page", "https://keys/down"}]

InitLoad ==
  /\ jwks = NoJwks
  /\ VerifierIdle
  /\ strict = FALSE
  /\ cluster = NoCluster
  /\ DiscoveryIdle
  /\ environ \in Environs
  /\ given \in GivenJwks
  /\ lpc = "new"
  /\ source = NoVal
  /\ ControllerIdle
  /\ SignerIdle

\* how the constructor ends when the value r came from the environment
Constructed(r) ==
  /\ lpc' = IF r.raised THEN "raised" ELSE "made"
  /\ jwks' = r.value
  /\ source' = r.source
  /\ UNCHANGED <<environ, given>>
  /\ UNCHANGED <<kidless, now, pc, card, idx, all_valid, details, trace, result>>
  /\ UNCHANGED <<dvars, cvars, svars>>

\* SignatureVerifier(jwks) with a key set passed in, line 137
ConstructGiven ==
  /\ lpc = "new"
  /\ ~Falsy(given)
  /\ Constructed(Loaded(given, "arg"))

\* the constructor leaving _load_trusted_jwks at lines 144-148
LoadInline ==
  /\ lpc = "new"
  /\ Falsy(given)
  /\ Truthy(environ.json)
  /\ Constructed(LoadTrustedJwks(environ))

\* ... at lines 151-153
LoadPath ==
  /\ lpc = "new"
  /\ Falsy(given)
  /\ ~Truthy(environ.json)
  /\ Truthy(environ.path) /\ PathExists(environ.path)
  /\ Constructed(LoadTrustedJwks(environ))

\* ... at lines 156-158
LoadUrl ==
  /\ lpc = "new"
  /\ Falsy(given)
  /\ ~Truthy(environ.json)
  /\ ~(Truthy(environ.path) /\ PathExists(environ.path))
  /\ Truthy(environ.url)
  /\ Constructed(LoadTrustedJwks(environ))

\* ... at line 160
LoadNone ==
  /\ lpc = "new"
  /\ Falsy(given)
  /\ ~Truthy(environ.json)
  /\ ~(Truthy(environ.path) /\ PathExists(environ.path))
  /\ ~Truthy(environ.url)
  /\ Constructed(LoadTrustedJwks(environ))

NextLoad ==
  \/ ConstructGiven
  \/ LoadInline
  \/ LoadPath
  \/ LoadUrl
  \/ LoadNone

SpecLoad == InitLoad /\ [][NextLoad]_vars

(***************************************************************************)
(* The AgentController (controller.py).  Its three watcher tasks share one *)
(* event loop: a handler runs alone up to the one await that yields, the   *)
(* HTTP request of verify_agent_endpoint, and while it waits the handlers  *)
(* of the other watchers run.  The API server keeps one object per         *)
(* (namespace, metadata.name): a create of an existing name is refused.    *)
(***************************************************************************)
\* a watched resource: kind, metadata.name, metadata.namespace, spec.host and
\* spec.tls of a Route, and the labels ai.openshift.io/agent.class and .name
Watched(kind, name, ns, host, tls, class, agent) ==
  [kind |-> kind, name |-> name, ns |-> ns, host |-> host, tls |-> tls,
   class |-> class, agent |-> agent]
\* extract_agent_info without the test of the class label, lines 86-88
ExtractAgentInfoByName(resource) ==
  IF ~Truthy(resource.agent)
  THEN <<>>
  ELSE <<[name |-> resource.agent,
          namespace |-> resource.ns,
          sourceRef |-> [kind |-> resource.kind, name |-> resource.name]]>>

\* extract_agent_info: <<>> for None, else <<agent_info>>
ExtractAgentInfo(resource) ==
  IF ~Truthy(resource.class) \/ ~Truthy(resource.agent)
  THEN <<>>
  ELSE <<[name |-> resource.agent,
          namespace |-> resource.ns,
          sourceRef |-> [kind |-> resource.kind, name |-> resource.name]]>>

\* agent_name.lower().replace('_', '-')
LowerDashed(agent_name) ==
  CASE agent_name = "Alpha" -> "alpha"
    [] agent_name = "beta_one" -> "beta-one"
    [] OTHER -> agent_name

\* a CR name that also tells the kind of the resource the agent was seen on
CrNamePerKind(agent_info) ==
  IF agent_info.sourceRef.kind = "Route"
  THEN LowerDashed(agent_info.name)
  ELSE LowerDashed(agent_info.name) \o "-x"

\* cr_name, lines 182 and 314
CrName(agent_info) == LowerDashed(agent_info.name)

\* a member of status.conditions
Condition(type, status, reason) == [type |-> type, status |-> status, reason |-> reason]

\* an Agent CR of the API server: AgentCr, status.phase and status.conditions
StoredAgent(cr, phase, conditions) ==
  [name |-> cr.name, namespace |-> cr.namespace, agent_name |-> cr.agent_name,
   url |-> cr.url, sourceRef |-> cr.sourceRef, phase |-> phase,
   conditions |-> conditions]

\* create_agent_cr
CreateAgentCr(agent_info, url) ==
  StoredAgent(AgentCr(CrName(agent_info), agent_info.namespace, agent_info.name,
                      url, agent_info.sourceRef),
              "Discovered", <<>>)

\* a set of at most one element as a sequence
SetToSeq(set) == IF set = {} THEN <<>> ELSE <<CHOOSE x \in set : TRUE>>

\* get_namespaced_custom_object: the objects of that name, none for a 404
GetAgent(objects, ns, name) == { o \in objects : o.namespace = ns /\ o.name = name }

\* create_namespaced_custom_object: refused (409) when the name is taken
CreateAgent(objects, cr) ==
  IF GetAgent(objects, cr.namespace, cr.name) # {} THEN objects ELSE objects \cup {cr}

\* delete_namespaced_custom_object
DeleteAgent(objects, ns, name) == objects \ GetAgent(objects, ns, name)

\* patch_namespaced_custom_object with body {"spec": {"sourceRef": ..}}
PatchSourceRef(objects, ns, name, source_ref) ==
  { IF o.namespace = ns /\ o.name = name THEN [o EXCEPT !.sourceRef = source_ref] ELSE o :
      o \in objects }

\* a server that applies the body to whatever object has the name now
PatchWholeUnguarded(objects, agent, new) ==
  { IF o.namespace = agent.namespace /\ o.name = agent.name THEN new ELSE o : o \in objects }

\* patch_namespaced_custom_object with the whole object `agent` read earlier
\* as body: it carries that read's resourceVersion, so the server applies it
\* only to the object as it was read (else 409, or 404 when it is gone)
PatchWhole(objects, agent, new) ==
  IF agent \in objects THEN (objects \ {agent}) \cup {new} ELSE objects

\* lines 269-273: the Ready condition replaced, the others kept
NextConditions(conditions, condition) ==
  Append(SelectSeq(conditions, LAMBDA c : c.type # "Ready"), condition)

\* update_agent_status without a URL, lines 259-273: status.url is not touched
StatusNoUrl(agent) ==
  [agent EXCEPT !.phase = "Failed",
                !.conditions = NextConditions(@, Condition("Ready", "False", "NoURL"))]

\* a status update that adds its condition to the list as it is
StatusCheckedAppending(agent, url, accessible) ==
  [agent EXCEPT !.url = url,
                !.phase = IF accessible THEN "Ready" ELSE "Failed",
                !.conditions =
                   Append(@, IF accessible
                             THEN Condition("Ready", "True", "EndpointAccessible")
                             ELSE Condition("Ready", "False", "EndpointNotAccessible"))]

\* update_agent_status with a URL, lines 235-258 and 269-273
StatusChecked(agent, url, accessible) ==
  [agent EXCEPT !.url = url,
                !.phase = IF accessible THEN "Ready" ELSE "Failed",
                !.conditions =
                   NextConditions(@, IF accessible
                                     THEN Condition("Ready", "True", "EndpointAccessible")
                                     ELSE Condition("Ready", "False",
                                                    "EndpointNotAccessible"))]

\* the body's resourceVersion is not the object's any more, or the object is
\* gone: the patch is answered 409 or 404
Stale(objects, agent) == agent \notin objects

\* del managed_agents[key]
IndexDel(index, key) == [k \in DOMAIN index \ {key} |-> index[k]]

\* what a handler step did: the event, its agent_key and the Agent CR it is
\* about (<<namespace, cr_name>>), both <<>> for an unlabelled resource, and
\* its API calls
Step(type, resource, calls) ==
  [type |-> type, kind |-> resource.kind, name |-> resource.name,
   key |-> IF Len(ExtractAgentInfo(resource)) = 0
           THEN <<>>
           ELSE <<resource.ns, resource.agent>>,
   target |-> IF Len(ExtractAgentInfo(resource)) = 0
              THEN <<>>
              ELSE <<resource.ns, CrName(ExtractAgentInfo(resource)[1])>>,
   calls |-> calls]

\* the handler of a watcher waiting for the card endpoint's answer; agent is
\* update_agent_status's local: <<the object it read at line 221>>
Awaiting(resource, agent_info, agent, url, created) ==
  [pc |-> "awaiting", created |-> created, kind |-> resource.kind,
   name |-> resource.name, ns |-> resource.ns, agent_name |-> agent_info.name,
   agent |-> agent, url |-> url]

RouteLabelled == Watched("Route", "alpha-route", "ns1", "a.example.com", TRUE, "a2a", "alpha")

\* the same route before it is admitted: no host
RouteHostless == Watched("Route", "alpha-route", "ns1", NoVal, FALSE, "a2a", "alpha")

\* class label without name label
RouteNameless == Watched("Route", "plain", "ns1", "c.example.com", TRUE, "a2a", NoVal)

ServiceLabelled == Watched("Service", "alpha-svc", "ns1", NoVal, FALSE, "a2a", "alpha")

ServiceBeta == Watched("Service", "beta-svc", "ns1", NoVal, FALSE, "a2a", "beta_one")

\* the agent name in another case: the same CR name
DeploymentLabelled == Watched("Deployment", "alpha", "ns1", NoVal, FALSE, "a2a", "Alpha")

\* name label without class label
DeploymentClassless == Watched("Deployment", "plain", "ns1", NoVal, FALSE, NoVal, "alpha")

\* the resources the stream of watcher w reports
WatchedBy(w) ==
  CASE w = "routes" -> {RouteLabelled, RouteHostless, RouteNameless}
    [] w = "services" -> {ServiceLabelled, ServiceBeta}
    [] OTHER -> {DeploymentLabelled, DeploymentClassless}

\* an Agent CR that was in the cluster before the controller started, made
\* by someone else: no sourceRef, a condition of its own, an old Ready one
Preexisting(url) ==
  StoredAgent(AgentCr("alpha", "ns1", "alpha", url, NoRef), "Pending",
              <<Condition("Synced", "True", "Applied"),
                Condition("Ready", "Unknown", "Pending")>>)

InitialStores ==
  { {}, {Preexisting(NoUrl)}, {Preexisting(Url("https", "old.example.com"))} }

InitController ==
  /\ jwks = NoJwks
  /\ VerifierIdle
  /\ strict = FALSE
  /\ cluster \in { NoCluster, [agents |-> <<>>, routes |-> <<RouteAlpha>>] }
  /\ DiscoveryIdle
  /\ LoaderIdle
  /\ SignerIdle
  /\ store \in InitialStores
  /\ managed_agents = <<>>
  /\ handlers = [w \in Watchers |-> IdleHandler]
  /\ clog = NoStep

\* handle_resource_event for a resource without both labels, lines 291-302
HandleUnlabelled(w) ==
  /\ handlers[w].pc = "idle"
  /\ \E resource \in WatchedBy(w), type \in {"ADDED", "MODIFIED", "DELETED"} :
       /\ Len(ExtractAgentInfo(resource)) = 0
       /\ clog' = Step(type, resource, <<>>)
  /\ UNCHANGED <<store, managed_agents, handlers>>
  /\ UNCHANGED <<vvars, dvars, lvars, svars>>

\* the end of update_agent_status and of the handler when no await yields:
\* lines 259-284, and line 367 on the create path
FinishNoUrl(w, type, resource, agent_info, objects, created, calls) ==
  /\ store' = { IF o.namespace = resource.ns /\ o.name = CrName(agent_info)
                THEN StatusNoUrl(o) ELSE o : o \in objects }
  /\ managed_agents' =
       IF created
       THEN IndexSet(managed_agents, <<resource.ns, agent_info.name>>,
                     <<resource.kind, resource.name>>)
       ELSE managed_agents
  /\ clog' = Step(type, resource, calls \o <<"get", "patch">>)
  /\ UNCHANGED handlers

\* update_agent_status up to its await, line 238
YieldWithUrl(w, type, resource, agent_info, objects, url, created, calls) ==
  /\ store' = objects
  /\ handlers' = [handlers EXCEPT ![w] =
                    Awaiting(resource, agent_info,
                             SetToSeq(GetAgent(objects, resource.ns, CrName(agent_info))),
                             url, created)]
  /\ clog' = Step(type, resource, calls \o <<"get">>)
  /\ UNCHANGED managed_agents

\* handle_resource_event, ADDED or MODIFIED, no Agent CR of that name: lines
\* 348-367
HandleCreate(w) ==
  /\ handlers[w].pc = "idle"
  /\ \E resource \in WatchedBy(w), type \in {"ADDED", "MODIFIED"}, fault \in {"none", "failed"} :
       /\ Len(ExtractAgentInfo(resource)) = 1
       /\ \E agent_info \in {ExtractAgentInfo(resource)[1]} :
          \E url \in {GetAgentUrl(cluster, resource, fault)} :
            /\ GetAgent(store, resource.ns, CrName(agent_info)) = {}
            /\ \E objects \in {CreateAgent(store, CreateAgentCr(agent_info, url))} :
                 IF url = NoUrl
                 THEN FinishNoUrl(w, type, resource, agent_info, objects, TRUE,
                                  <<"get", "create">>)
                 ELSE YieldWithUrl(w, type, resource, agent_info, objects, url, TRUE,
                                   <<"get", "create">>)
  /\ UNCHANGED <<vvars, dvars, lvars, svars>>

\* handle_resource_event, ADDED or MODIFIED, the Agent CR exists and the
\* event is from a Route or the CR has no URL: lines 325-346
HandleUpdate(w) ==
  /\ handlers[w].pc = "idle"
  /\ \E resource \in WatchedBy(w), type \in {"ADDED", "MODIFIED"}, fault \in {"none", "failed"} :
       /\ Len(ExtractAgentInfo(resource)) = 1
       /\ \E agent_info \in {ExtractAgentInfo(resource)[1]} :
          \E url \in {GetAgentUrl(cluster, resource, fault)} :
          \E existing_agent \in GetAgent(store, resource.ns, CrName(agent_info)) :
            /\ resource.kind = "Route" \/ existing_agent.url = NoUrl
            /\ \E patched \in {resource.kind = "Route"
                                 \/ ~Truthy(existing_agent.sourceRef.kind)} :
               \E objects \in {IF patched
                               THEN PatchSourceRef(store, resource.ns, CrName(agent_info),
                                                   agent_info.sourceRef)
                               ELSE store} :
               \E calls \in {IF patched THEN <<"get", "patch">> ELSE <<"get">>} :
                 IF url = NoUrl
                 THEN FinishNoUrl(w, type, resource, agent_info, objects, FALSE, calls)
                 ELSE YieldWithUrl(w, type, resource, agent_info, objects, url, FALSE, calls)
  /\ UNCHANGED <<vvars, dvars, lvars, svars>>

\* handle_resource_event, ADDED or MODIFIED from a Service or Deployment for
\* an Agent CR that has a URL: line 327 is false, nothing is done
HandleSkip(w) ==
  /\ handlers[w].pc = "idle"
  /\ \E resource \in WatchedBy(w), type \in {"ADDED", "MODIFIED"} :
       /\ Len(ExtractAgentInfo(resource)) = 1
       /\ \E existing_agent \in GetAgent(store, resource.ns,
                                         CrName(ExtractAgentInfo(resource)[1])) :
            resource.kind # "Route" /\ existing_agent.url # NoUrl
       /\ clog' = Step(type, resource, <<"get">>)
  /\ UNCHANGED <<store, managed_agents, handlers>>
  /\ UNCHANGED <<vvars, dvars, lvars, svars>>

\* the handler of watcher w resumed with the endpoint's answer: lines 239-284,
\* and line 367 on the create path
HandleResume(w) ==
  /\ handlers[w].pc = "awaiting"
  /\ \E accessible \in BOOLEAN :
     \E h \in {handlers[w]} :
       /\ store' = IF Len(h.agent) = 0
                   THEN store
                   ELSE PatchWhole(store, h.agent[1],
                                   StatusChecked(h.agent[1], h.url, accessible))
       /\ managed_agents' =
            IF h.created
            THEN IndexSet(managed_agents, <<h.ns, h.agent_name>>, <<h.kind, h.name>>)
            ELSE managed_agents
       /\ clog' = [type |-> "resumed", kind |-> h.kind, name |-> h.name,
                   key |-> <<h.ns, h.agent_name>>,
                   target |-> <<h.ns, h.agent[1].name>>,
                   calls |-> <<IF accessible THEN "GET 200" ELSE "GET failed",
                               IF Stale(store, h.agent[1])
                               THEN "patch refused" ELSE "patch">>]
  /\ handlers' = [handlers EXCEPT ![w] = IdleHandler]
  /\ UNCHANGED <<vvars, dvars, lvars, svars>>

\* a DELETED handler that does not look at managed_agents
HandleDeletedUntracked(w) ==
  /\ handlers[w].pc = "idle"
  /\ \E resource \in WatchedBy(w) :
       /\ Len(ExtractAgentInfo(resource)) = 1
       /\ \E agent_info \in {ExtractAgentInfo(resource)[1]} :
            /\ clog' = Step("DELETED", resource, <<"delete">>)
            /\ store' = DeleteAgent(store, resource.ns, CrName(agent_info))
            /\ managed_agents' = IndexDel(managed_agents, <<resource.ns, agent_info.name>>)
  /\ UNCHANGED handlers
  /\ UNCHANGED <<vvars, dvars, lvars, svars>>

\* handle_resource_event, DELETED: lines 374-391
HandleDeleted(w) ==
  /\ handlers[w].pc = "idle"
  /\ \E resource \in WatchedBy(w) :
       /\ Len(ExtractAgentInfo(resource)) = 1
       /\ \E agent_info \in {ExtractAgentInfo(resource)[1]} :
          \E agent_key \in {<<resource.ns, agent_info.name>>} :
            IF agent_key \notin DOMAIN managed_agents
            THEN /\ clog' = Step("DELETED", resource, <<>>)
                 /\ UNCHANGED <<store, managed_agents>>
            ELSE /\ clog' = Step("DELETED", resource, <<"delete">>)
                 /\ store' = DeleteAgent(store, resource.ns, CrName(agent_info))
                 /\ managed_agents' =
                      IF GetAgent(store, resource.ns, CrName(agent_info)) = {}
                      THEN managed_agents
                      ELSE IndexDel(managed_agents, agent_key)
  /\ UNCHANGED handlers
  /\ UNCHANGED <<vvars, dvars, lvars, svars>>

NextController ==
  \E w \in Watchers :
    \/ HandleUnlabelled(w)
    \/ HandleCreate(w)
    \/ HandleUpdate(w)
    \/ HandleSkip(w)
    \/ HandleResume(w)
    \/ HandleDeleted(w)

SpecController == InitController /\ [][NextController]_vars

\* someone else removes an Agent CR (oc delete agent ...): what the delete of
\* line 379 then meets is the 404 of lines 388-390
DeletedByOthers ==
  /\ \E o \in store : store' = store \ {o}
  /\ clog' = [NoStep EXCEPT !.type = "deleted by others"]
  /\ UNCHANGED <<managed_agents, handlers>>
  /\ UNCHANGED <<vvars, dvars, lvars, svars>>

NextShared ==
  \/ NextController
  \/ DeletedByOthers

\* the controller in a cluster whose Agent CRs other clients delete too
SpecShared == InitController /\ [][NextShared]_vars

(***************************************************************************)
(* The three watcher tasks on their event loop, lines 447-510.  A task     *)
(* holds the loop's thread from the moment it runs until it reaches an     *)
(* await that suspends: `for event in w.stream(list_func)` is a plain for  *)
(* over the synchronous kubernetes client, so a task waiting for the next  *)
(* event of its stream keeps the thread.  Here handlers[w].pc is "idle"    *)
(* (task created, not run yet), "streaming" (inside the for, holding the   *)
(* thread), "awaiting" (its handler suspended at line 238) or "sleeping"   *)
(* (in asyncio.sleep(10) after an exception).                              *)
(***************************************************************************)
LoopFree == \A v \in Watchers : handlers[v].pc # "streaming"

At(w, position) == [handlers EXCEPT ![w].pc = position]

Did(w, what) == [NoStep EXCEPT !.type = what, !.kind = w]

InitWatch ==
  /\ jwks = NoJwks
  /\ VerifierIdle
  /\ strict = FALSE
  /\ cluster = NoCluster
  /\ DiscoveryIdle
  /\ LoaderIdle
  /\ ControllerIdle
  /\ SignerIdle

\* asyncio.create_task, line 469: the task gets the thread and enters the
\* stream, lines 477-485
WatchStart(w) ==
  /\ handlers[w].pc = "idle"
  /\ LoopFree
  /\ handlers' = At(w, "streaming")
  /\ clog' = Did(w, "started")
  /\ UNCHANGED <<store, managed_agents>>
  /\ UNCHANGED <<vvars, dvars, lvars, svars>>

\* an event arrives and its handler returns without suspending, lines 485-504
WatchEvent(w) ==
  /\ handlers[w].pc = "streaming"
  /\ clog' = Did(w, "handled")
  /\ UNCHANGED <<store, managed_agents, handlers>>
  /\ UNCHANGED <<vvars, dvars, lvars, svars>>

\* an event arrives and its handler suspends at the request of line 238; a
\* Deployment has no URL (get_agent_url, line 155), so its handler never does
WatchYield(w) ==
  /\ handlers[w].pc = "streaming"
  /\ w # "deployments"
  /\ handlers' = At(w, "awaiting")
  /\ clog' = Did(w, "suspended")
  /\ UNCHANGED <<store, managed_agents>>
  /\ UNCHANGED <<vvars, dvars, lvars, svars>>

\* the request is answered, the handler ends and the for goes on
WatchResume(w) ==
  /\ handlers[w].pc = "awaiting"
  /\ LoopFree
  /\ handlers' = At(w, "streaming")
  /\ clog' = Did(w, "resumed")
  /\ UNCHANGED <<store, managed_agents>>
  /\ UNCHANGED <<vvars, dvars, lvars, svars>>

\* the stream or a handler raises: lines 506-509, up to the sleep
WatchRaise(w) ==
  /\ handlers[w].pc = "streaming"
  /\ handlers' = At(w, "sleeping")
  /\ clog' = Did(w, "raised")
  /\ UNCHANGED <<store, managed_agents>>
  /\ UNCHANGED <<vvars, dvars, lvars, svars>>

\* the sleep of line 509 is over and the while of line 477 starts the watch
\* again
WatchRestart(w) ==
  /\ handlers[w].pc = "sleeping"
  /\ LoopFree
  /\ handlers' = At(w, "streaming")
  /\ clog' = Did(w, "restarted")
  /\ UNCHANGED <<store, managed_agents>>
  /\ UNCHANGED <<vvars, dvars, lvars, svars>>

NextWatch ==
  \E w \in Watchers :
    \/ WatchStart(w)
    \/ WatchEvent(w)
    \/ WatchYield(w)
    \/ WatchResume(w)
    \/ WatchRaise(w)
    \/ WatchRestart(w)

\* the event loop runs its ready tasks in turn each time the thread is
\* free; nothing obliges the cluster to send events or a stream to fail
SpecWatch ==
  /\ InitWatch
  /\ [][NextWatch]_vars
  /\ \A w \in Watchers :
       SF_vars(WatchStart(w)) /\ SF_vars(WatchResume(w)) /\ SF_vars(WatchRestart(w))

(***************************************************************************)
(* The mock agent's signer, mock_agent/agent.py lines 116-159, and a       *)
(* client that verifies the card it publishes.  The card reaches verify as *)
(* the dict model_dump(mode="json", exclude_none=True) gives for it, the   *)
(* form the signer itself serialises.  The signing key is an RSA key pair. *)
(***************************************************************************)
\* dict[key] = value, keeping the key's place when it is there already
Put(fields, k, v) ==
  IF HasKey(fields, k)
  THEN [i \in 1..Len(fields) |-> IF fields[i][1] = k THEN <<k, v>> ELSE fields[i]]
  ELSE Append(fields, <<k, v>>)

\* card.model_dump(mode="json", exclude_none=True): members that are None
\* are left out
ModelDump(agent_card) ==
  LET Set(p) == p[2][1] # "null"
  IN [fields |-> SelectSeq(agent_card.fields, Set), sigs |-> agent_card.sigs]

\* json.dumps without sort_keys: the members in insertion order
JsonDumpsInOrder(fields, sigs) ==
  LET strs == [i \in 1..Len(fields) |->
                 "\"" \o fields[i][1] \o "\":" \o PyValue(fields[i][2], sigs)]
  IN "{" \o Join(strs, ",") \o "}"

\* the signer serialising the members in the order the model has them
SignerPayloadInOrder(agent_card) ==
  JsonDumpsInOrder(Pop(ModelDump(agent_card).fields, "signatures"), <<>>)

\* payload_str, lines 121-123
SignerPayload(agent_card) ==
  JsonDumps(Pop(ModelDump(agent_card).fields, "signatures"), <<>>)

\* line 128: A2A_SIGNING_KID, else the key's own kid, else "mock-agent-key"
SignerKid(s) ==
  IF Truthy(s.env_kid) THEN s.env_kid
  ELSE IF Truthy(s.key_kid) THEN s.key_kid
  ELSE "mock-agent-key"

\* line 129
SignerAlg(s) == IF Truthy(s.env_alg) THEN s.env_alg ELSE "RS256"

\* protected_hdr, lines 139-141; jwks_url is configured_jwks_url
ProtectedHdr(s) ==
  [EmptyHdr EXCEPT !.alg = SignerAlg(s), !.kid = SignerKid(s), !.jku = s.jwks_url]

\* lines 143-151: the flattened JWS over payload_str made with the key, of
\* which the card keeps protected and signature
SignAgentCard(agent_card, s) ==
  LET blob == ProtBlob("json", ProtectedHdr(s))
      payload_b64 == Base64urlEncode(SignerPayload(agent_card))
  IN [fields |-> Put(agent_card.fields, "signatures", <<"list", 0>>),
      sigs |-> <<[protected |-> blob,
                  header |-> EmptyHdr,
                  signature |-> SigValue(s.mat, SignerAlg(s), blob, payload_b64)]>>]

\* the settings the signer may run under
Signings ==
  [mat : {"rsa1", "rsa2"}, key_kid : {NoVal, "k1"}, env_kid : {NoVal, "k2"},
   env_alg : {NoVal, "RS256", "PS256"},
   jwks_url : {NoVal, "https://agent/.well-known/jwks.json"}]

\* the cards the agent builds: signatures is None until the card is signed
MockName == <<"name", <<"str", 1>>>>

MockUnsigned == <<"signatures", <<"null", 0>>>>

MockCards ==
  { Card(<<MockName, MockUnsigned, <<"version", <<"int", 1>>>>>>, <<>>),
    Card(<<<<"version", <<"float", 1>>>>, MockUnsigned, MockName>>, <<>>),
    Card(<<MockUnsigned, <<"version", <<"bigint", 0>>>>>>, <<>>),
    Card(<<MockName, <<"description", <<"null", 0>>>>, MockUnsigned>>, <<>>) }

\* the public JWK of the signer's key pair k under the kid it signs with
PublicPart(s, use) == Jwk(SignerKid(s), "RSA", use, s.mat)

OtherMat(s) == IF s.mat = "rsa1" THEN "rsa2" ELSE "rsa1"

\* the key sets a client may trust when it meets the card signed under s
ClientKeySets(s) ==
  { <<PublicPart(s, "sig")>>,
    <<PublicPart(s, NoVal)>>,
    <<K2, PublicPart(s, "sig")>>,
    <<PublicPart(s, "enc")>>,
    <<Jwk(SignerKid(s), "RSA", "sig", OtherMat(s)), PublicPart(s, "sig")>>,
    <<Jwk("k9", "RSA", "sig", s.mat)>>,
    <<>> }

InitSign ==
  /\ \E s \in Signings :
       /\ signing = s
       /\ jwks \in {NoJwks} \cup {Jwks(ks) : ks \in ClientKeySets(s)}
  /\ VerifierIdle
  /\ strict = FALSE
  /\ cluster = NoCluster
  /\ DiscoveryIdle
  /\ LoaderIdle
  /\ ControllerIdle
  /\ mock_card \in MockCards
  /\ spc = "built"
  /\ changed = "no"
  /\ verdict = NoVerdict

\* _sign_agent_card(card, base_url); from here on mock_card is the dict the
\* signed card is published as
SignCard ==
  /\ spc = "built"
  /\ mock_card' = ModelDump(SignAgentCard(mock_card, signing))
  /\ spc' = "signed"
  /\ UNCHANGED <<signing, changed, verdict>>
  /\ UNCHANGED <<vvars, dvars, lvars, cvars>>

\* the values a member of the published card may be given
MemberValues ==
  { <<"str", 1>>, <<"str", 2>>, <<"int", 1>>, <<"int", 2>>, <<"float", 1>>, <<"null", 0>> }

\* Python's ==: 1 == 1.0
SameValue(v, w) == v = w \/ ({v[1], w[1]} \subseteq {"int", "float"} /\ v[2] = w[2])

\* the published card with the member k set to v, or removed when it was
\* there and v is Absent
WithMember(fields, k, v) == IF v = Absent THEN Pop(fields, k) ELSE Put(fields, k, v)

\* someone changes one member other than signatures of the published card
ChangeMember ==
  /\ spc = "signed"
  /\ changed = "no"
  /\ \E k \in {"description", "name", "version"}, v \in MemberValues \cup {Absent} :
       \E old \in {IF HasKey(mock_card.fields, k) THEN Get(mock_card.fields, k) ELSE Absent} :
         /\ v # old
         /\ mock_card' = [mock_card EXCEPT !.fields = WithMember(@, k, v)]
         /\ changed' = IF old # Absent /\ v # Absent /\ SameValue(old, v)
                       THEN "spelling" ELSE "value"
  /\ UNCHANGED <<signing, spc, verdict>>
  /\ UNCHANGED <<vvars, dvars, lvars, cvars>>

\* a client fetches the card and calls SignatureVerifier.verify on it
VerifyPublished ==
  /\ spc = "signed"
  /\ verdict' = Verify(mock_card, jwks, kidless, now)
  /\ spc' = "verified"
  /\ UNCHANGED <<signing, mock_card, changed>>
  /\ UNCHANGED <<vvars, dvars, lvars, cvars>>

NextSign ==
  \/ SignCard
  \/ ChangeMember
  \/ VerifyPublished

SpecSign == InitSign /\ [][NextSign]_vars

(***************************************************************************)
(* Properties of discovery.  agents[i] and dlog[i] belong to agent_crs[i]. *)
(***************************************************************************)
Listed == 1..Len(agents)

\* the card URL of agent i answered 200
Got200(i) == dlog[i].resp.kind = "http" /\ dlog[i].resp.status = 200

\* ... with a body that parses to a card
GotCard(i) == Got200(i) /\ dlog[i].resp.body = "card"

\* C12: a result record has signature_verified = true only if signature
\* verification was asked for, a trusted key set is loaded, the card URL
\* answered 200 with a card and verify returned all-valid for that card; a
\* pass without verify_signatures sets neither signature_verified nor
\* signature_verification.
C12_VerifiedOnlyWhenChecked ==
  \A i \in Listed :
    /\ agents[i].signature_verified = "True" =>
         /\ params.verify_signatures
         /\ jwks.loaded
         /\ GotCard(i)
         /\ Verify(dlog[i].resp.card, jwks, kidless, now).ok
         /\ agents[i].signature_verification.kind = "details"
    /\ ~params.verify_signatures =>
         /\ agents[i].signature_verified = NoVal
         /\ agents[i].signature_verification = NoVerification

\* C12 witness: a pass returned a record with signature_verified = true
C12_Witness ==
  /\ dpc = "returned"
  /\ \E i \in Listed : agents[i].signature_verified = "True"

Last == Len(dlog)

\* the card met by iteration i cannot count as verified
Unverifiable(c) == ~jwks.loaded \/ ~Verify(c, jwks, kidless, now).ok

Fetched(i) == dlog[i].resp.kind # "none"

\* iteration i could not get a card: connection failure, or a body that
\* does not parse
FetchFailed(i) ==
  \/ dlog[i].resp.kind = "error"
  \/ Got200(i) /\ params.verify_signatures /\ dlog[i].resp.body # "card"

\* C15: an agent's connection failure, non-200 answer, unparsable card or
\* failed verification does not abort the pass: the iteration does not
\* raise, the failure is in the agent's record, and the pass goes on to
\* return a record for every agent.
C15_FailureNeverAborts ==
  /\ \A i \in 1..Len(dlog) :
       (Fetched(i) /\ (FetchFailed(i) \/ ~Got200(i))) =>
         /\ dlog[i].raised = NoVal
         /\ i \in Listed
         /\ agents[i].endpoint_accessible = "False"
  /\ \A i \in 1..Len(dlog) :
       (GotCard(i) /\ params.verify_signatures /\ jwks.loaded
          /\ ~Verify(dlog[i].resp.card, jwks, kidless, now).ok) =>
         /\ dlog[i].raised = NoVal
         /\ i \in Listed
         /\ agents[i].signature_verified = "False"

\* C16: a pass over the Agent records returns exactly one record per input
\* record, in input order, with that record's name and namespace, whatever
\* resolved or failed on the way.
C16_OneResultPerAgent ==
  (outcome.op = "discover" /\ cluster.agents # <<>>
     /\ outcome.raised \notin PassErrors) =>
    /\ dpc = "returned"
    /\ Len(outcome.value) = Len(cluster.agents)
    /\ \A i \in 1..Len(outcome.value) :
         /\ outcome.value[i].agent_name = AgentName(cluster.agents[i])
         /\ outcome.value[i].namespace = cluster.agents[i].namespace

\* C17: the endpoint_accessible of a record whose card URL was requested is
\* true exactly when the answer was HTTP 200, whether or not signatures are
\* verified and whatever parsing and verifying the card gave.
C17_ReachabilityIndependent ==
  \A i \in Listed :
    Fetched(i) => agents[i].endpoint_accessible = PyBool(Got200(i))

Iterations == 1..Len(dlog)

\* what the three tiers answer for the Agent CR of iteration i, computed
\* from the cluster and the index of the pass
TierUrls(i) ==
  LET agent_cr == dlog[i].cr
      ns == agent_cr.namespace
  IN << ResolveUrlFromSourceRef(cluster, ns, agent_cr.sourceRef, dlog[i].fault).url,
        IndexGet(route_index, <<ns, AgentName(agent_cr)>>),
        IndexGet(route_index, <<ns, agent_cr.name>>) >>

TierNames == <<"sourceRef", "agent_name", "cr_name">>

\* the tiers of iteration i that answered a URL
Hits(i) == { k \in 1..3 : TierUrls(i)[k] # NoUrl }

FirstHit(i) == CHOOSE k \in Hits(i) : \A j \in Hits(i) : k <= j

\* C18: an Agent CR that carries a status URL resolves to that URL,
\* unchanged, and its resolution consults no tier and runs no oc command.
C18_StatusUrlUnchanged ==
  \A i \in Iterations :
    dlog[i].cr.url # NoUrl =>
      /\ dlog[i].resolved.url = dlog[i].cr.url
      /\ dlog[i].resolved.consulted = <<>>
      /\ dlog[i].resolved.oc = <<>>
      /\ dlog[i].info.url = dlog[i].cr.url
      /\ dlog[i].info.agent_card_url = Append(dlog[i].cr.url, DEFAULT_AGENT_ENDPOINT)

\* C18 witness: a CR with a status URL whose sourceRef names a route that
\* would resolve to another URL
C18_Witness ==
  \E i \in Listed :
    /\ dlog[i].cr.url = StatusUrl
    /\ TierUrls(i)[1] \notin {NoUrl, StatusUrl}
    /\ agents[i].url = StatusUrl

\* C19: without a status URL the resolved URL is the answer of the first
\* tier that has one, in the order sourceRef, index under the declared agent
\* name, index under the CR's own name, and the tiers consulted are exactly
\* those up to that one (all three when none answers).
C19_FirstTierWins ==
  \A i \in Iterations :
    dlog[i].cr.url = NoUrl =>
      IF Hits(i) = {}
      THEN /\ dlog[i].resolved.url = NoUrl
           /\ dlog[i].resolved.consulted = TierNames
      ELSE /\ dlog[i].resolved.url = TierUrls(i)[FirstHit(i)]
           /\ dlog[i].resolved.consulted = SubSeq(TierNames, 1, FirstHit(i))

\* C19 witness: the two index tiers answer different URLs and the declared
\* agent name wins; and the CR's own name is used when nothing else answers
C19_Witness ==
  \E i \in Listed :
    /\ dlog[i].cr.url = NoUrl
    /\ Hits(i) = {2, 3}
    /\ TierUrls(i)[2] # TierUrls(i)[3]
    /\ agents[i].url = TierUrls(i)[2]

\* the sourceRef lookup of iteration i failed: the oc command failed, timed
\* out or printed no JSON, the resource is missing, or kind or name is
LookupFailed(i) ==
  LET ref == dlog[i].cr.sourceRef
  IN /\ dlog[i].cr.url = NoUrl
     /\ ref # NoRef
     /\ \/ dlog[i].fault # "none"
        \/ OrEmptyStrip(ref.kind) = ""
        \/ OrEmptyStrip(ref.name) = ""
        \/ /\ ref.kind = "Route"
           /\ \A k \in 1..Len(cluster.routes) :
                ~(cluster.routes[k].ns = dlog[i].cr.namespace
                    /\ cluster.routes[k].name = ref.name)
        \/ /\ ref.kind = "Service"
           /\ \A k \in 1..Len(cluster.routes) :
                ~(cluster.routes[k].ns = dlog[i].cr.namespace
                    /\ cluster.routes[k].to = ref.name)

\* C20: a failed sourceRef lookup raises nothing and yields no URL, and the
\* resolution goes on with the route index, whose answer is the URL.
C20_LookupFailureSwallowed ==
  \A i \in Iterations :
    LookupFailed(i) =>
      /\ ~dlog[i].resolved.raised
      /\ dlog[i].raised \in {NoVal} \cup
           { "connect error", "invalid json", "AgentCard signatures did not verify",
             "A2A_REQUIRE_VERIFIED_CARD is true but no JWKS configured" }
      /\ Len(dlog[i].resolved.consulted) >= 2
      /\ dlog[i].resolved.url =
           IF TierUrls(i)[2] # NoUrl THEN TierUrls(i)[2] ELSE TierUrls(i)[3]

\* C20 witness: oc timed out looking up a Service sourceRef that a route
\* serves, and the index gave the URL
C20_Witness ==
  \E i \in Listed :
    /\ dlog[i].fault = "timeout"
    /\ dlog[i].cr.sourceRef = [kind |-> "Service", name |-> "beta-svc"]
    /\ \E k \in 1..Len(cluster.routes) : cluster.routes[k].to = "beta-svc"
    /\ agents[i].url # NoUrl

\* the URLs of the routes of namespace ns that target service name and
\* have a host
ServiceRouteUrls(ns, name) ==
  { BuildUrlFromRoute(cluster.routes[k]) :
      k \in { j \in 1..Len(cluster.routes) :
                /\ cluster.routes[j].ns = ns
                /\ cluster.routes[j].to = name
                /\ cluster.routes[j].host \notin {NoVal, ""} } }

\* C21: for a sourceRef of kind Service whose routes were listed, whenever a
\* route of the agent's namespace targets the service and has a host, the
\* bridge resolves to the URL of such a route, and so does the controller's
\* get_agent_url for that Service over the same route list.
C21_ServiceResolves ==
  \A i \in Iterations :
    LET agent_cr == dlog[i].cr
        ref == agent_cr.sourceRef
        urls == ServiceRouteUrls(agent_cr.namespace, ref.name)
        service == Resource("Service", ref.name, agent_cr.namespace, NoVal, FALSE)
    IN (agent_cr.url = NoUrl /\ ref.kind = "Service" /\ dlog[i].fault = "none"
          /\ urls # {}) =>
         /\ TierUrls(i)[1] \in urls
         /\ GetAgentUrl(cluster, service, "none") \in urls
         /\ dlog[i].resolved.tier = "sourceRef"

\* C22: an agent for which no tier yields a URL is still returned, with
\* empty url and card URL; its card is not requested, endpoint_accessible is
\* false if endpoint verification was asked for (unset otherwise), the
\* signature members stay unset and the iteration raises nothing.
C22_UnresolvedStillReturned ==
  \A i \in Iterations :
    (dlog[i].cr.url = NoUrl /\ Hits(i) = {}) =>
      /\ dlog[i].raised = NoVal
      /\ i \in Listed
      /\ agents[i].url = NoUrl
      /\ agents[i].agent_card_url = NoUrl
      /\ ~Fetched(i)
      /\ agents[i].endpoint_accessible =
           IF params.verify_endpoints THEN "False" ELSE NoVal
      /\ agents[i].signature_verified = NoVal
      /\ agents[i].signature_verification = NoVerification

\* C22 witness: a pass in strict mode, asked to verify endpoints and
\* signatures, returned an agent whose sourceRef and index lookups all missed
C22_Witness ==
  /\ dpc = "returned" /\ strict
  /\ params.verify_endpoints /\ params.verify_signatures
  /\ \E i \in Listed :
       /\ dlog[i].cr.sourceRef.kind = "Route"
       /\ Hits(i) = {}
       /\ outcome.value[i].url = NoUrl

\* the routes the pass listed for its index (label a2a.agent=true) that
\* build_route_index does not skip
Indexable ==
  { k \in 1..Len(cluster.routes) :
      /\ cluster.routes[k].a2a
      /\ cluster.routes[k].ns \notin {NoVal, ""}
      /\ cluster.routes[k].host \notin {NoVal, ""} }

\* route k carries name as the value of an identity label
LabelledAs(k, name) ==
  \E l \in 1..Len(AGENT_LABEL_KEYS) : cluster.routes[k].labels[l] = name

\* the index of the pass was built (the route listing did not fail)
IndexBuilt == dpc = "loop" /\ (Indexable # {} => DOMAIN route_index # {})

\* C23: in the index, a key for which some route carries the name as an
\* identity label maps to the URL of such a route, never to the URL of a
\* route that only bears the name as its own, whatever the order of the
\* routes; so with the route labelled alpha and the unlabelled route named
\* alpha, ("ns1", "alpha") maps to the labelled route's host in both orders.
C23_LabelBeatsRouteName ==
  IndexBuilt =>
    /\ \A key \in DOMAIN route_index :
         LET labelled == { k \in Indexable :
                             cluster.routes[k].ns = key[1] /\ LabelledAs(k, key[2]) }
         IN labelled # {} =>
              \E k \in labelled : route_index[key][2] = cluster.routes[k].host
    /\ cluster.routes \in { <<RouteAlpha, RouteNamedAlpha>>,
                            <<RouteNamedAlpha, RouteAlpha>> } =>
         IndexGet(route_index, <<"ns1", "alpha">>)[2] = "a.example.com"

\* C23 witness: the labelled route comes first and the route named alpha,
\* indexed after it, did not replace its entry
C23_Witness ==
  /\ IndexBuilt
  /\ cluster.routes = <<RouteAlpha, RouteNamedAlpha>>
  /\ route_index[<<"ns1", "alpha">>][2] = "a.example.com"
  /\ \E i \in Listed : agents[i].url = Url("https", "a.example.com")

\* C24: every entry of the index is the URL of a route that has a namespace
\* and a host, with scheme https if that route declares TLS and http if it
\* does not; a route without namespace or host adds no entry.
C24_IndexSchemeFollowsTls ==
  IndexBuilt =>
    \A key \in DOMAIN route_index :
      \E k \in Indexable :
        /\ cluster.routes[k].ns = key[1]
        /\ LabelledAs(k, key[2]) \/ cluster.routes[k].name = key[2]
        /\ route_index[key] = BuildUrlFromRoute(cluster.routes[k])

(***************************************************************************)
(* The candidate payloads of a card, as verify builds them at line 230.    *)
(***************************************************************************)
\* the card with its "signatures" entry replaced by a list of envelopes
WithSignatures(agent_card, sigs) ==
  [fields |-> Append(Pop(agent_card.fields, "signatures"), <<"signatures", <<"list", 0>>>>),
   sigs |-> sigs]

\* the card with "signatures": null, and the card without the key
WithNullSignatures(agent_card) ==
  [fields |-> Append(Pop(agent_card.fields, "signatures"), <<"signatures", <<"null", 0>>>>),
   sigs |-> <<>>]

WithoutSignatures(agent_card) ==
  [fields |-> Pop(agent_card.fields, "signatures"), sigs |-> <<>>]

Reverse(seq) == [i \in 1..Len(seq) |-> seq[Len(seq) + 1 - i]]

\* cards that differ from agent_card in nothing but the signatures field:
\* envelopes removed, reordered, added, the field null, the field absent
SignatureVariants(agent_card) ==
  { WithSignatures(agent_card, <<>>),
    WithSignatures(agent_card, Reverse(agent_card.sigs)),
    WithSignatures(agent_card, IF Len(agent_card.sigs) = 0 THEN <<>> ELSE Tail(agent_card.sigs)),
    WithSignatures(agent_card, Append(agent_card.sigs, Envelope(SpecSelf, agent_card.fields))),
    WithNullSignatures(agent_card),
    WithoutSignatures(agent_card) }

\* C25: the candidate payloads of the card under verification are those of
\* every card that differs from it only in its signatures field (envelopes
\* added, removed or reordered, the field null or absent): the candidates
\* never cover the signature envelopes.
C25_CandidatesIgnoreSignatures ==
  pc # "idle" =>
    \A other \in SignatureVariants(card) :
      CandidatePayloadB64s(other) = CandidatePayloadB64s(card)

\* C25 witness: a card with two envelopes went through the loop, and a variant
\* of it with another number of envelopes exists
C25_Witness ==
  /\ pc = "done"
  /\ Len(Signatures(card)) = 2
  /\ Len(details) = 2
  /\ \E other \in SignatureVariants(card) : Len(other.sigs) # Len(card.sigs)

\* the two encodings of the card under verification, signatures removed
JcsB64 == Base64urlEncode(JcsDump(Pop(card.fields, "signatures"), <<>>))

MinifiedB64 == Base64urlEncode(JsonDumps(Pop(card.fields, "signatures"), <<>>))

Candidates == CandidatePayloadB64s(card)

\* C26: the candidate list of the card under verification is non-empty and
\* has no duplicates; it always holds the sorted-keys minified encoding; when
\* the JCS encoding can be produced it is the first entry and the minified
\* encoding, if different, the second and last; when JCS raises the list is
\* the minified encoding alone.
C26_CandidatesOrderedUnique ==
  pc # "idle" =>
    /\ Len(Candidates) >= 1
    /\ \A i, j \in 1..Len(Candidates) : Candidates[i] = Candidates[j] => i = j
    /\ \E i \in 1..Len(Candidates) : Candidates[i] = MinifiedB64
    /\ ~JcsRaises(Pop(card.fields, "signatures")) =>
         /\ Candidates[1] = JcsB64
         /\ Candidates \in {<<JcsB64>>, <<JcsB64, MinifiedB64>>}
    /\ JcsRaises(Pop(card.fields, "signatures")) => Candidates = <<MinifiedB64>>

\* C26 witness: JCS raises on the card, and the envelope made over the
\* minified encoding was tried against it and verified
C26_Witness ==
  /\ pc = "done"
  /\ JcsRaises(Pop(card.fields, "signatures"))
  /\ Len(details) = 1 /\ details[1].valid
  /\ trace[1].attempts = 1

\* C27: building the candidates leaves the caller's card as it was passed,
\* signatures included, and building them again, from that card or from the
\* card with its signatures already removed, gives the same ordered list.
C27_CandidatesIdempotent ==
  pc # "idle" =>
    /\ CandidatePayloadB64s(CardAfterCandidates(card)) = Candidates
    /\ CandidatePayloadB64s(WithoutSignatures(card)) = Candidates
    /\ CandidatePayloadB64s(WithoutSignatures(WithoutSignatures(card))) = Candidates
    /\ card \in Cards
    /\ (pc = "loop" \/ Len(details) > 0) => Len(Signatures(card)) > 0

\* C27 witness: the loop ran over both envelopes of a card, which the card
\* still holds after the candidates were built
C27_Witness ==
  /\ pc = "done"
  /\ Len(details) = 2
  /\ Len(Signatures(card)) = 2
  /\ WithoutSignatures(card) # card

\* what verify returns for agent_card with key set trusted, envelope i being
\* checked at time at[i]: a function of the call's own inputs
VerifyOf(agent_card, trusted, kl, at) ==
  LET sigs == Signatures(agent_card)
      infos == [i \in 1..Len(sigs) |->
                  VerifyEnvelope(sigs[i], CandidatePayloadB64s(agent_card),
                                 trusted.keys, kl, at[i]).info]
  IN IF Len(sigs) = 0 \/ ~trusted.loaded
     THEN [all_valid |-> Verify(agent_card, trusted, kl, 0).ok,
           details |-> Verify(agent_card, trusted, kl, 0).details]
     ELSE [all_valid |-> \A i \in 1..Len(sigs) : infos[i].valid, details |-> infos]

\* C28: no step of the verifier changes its key set, and no step of a call
\* changes the card of that call; whatever calls came before, the value a
\* call returns is the one computed from its card, the key set and the clock
\* alone.
C28_VerifyIsStateless ==
  /\ [](pc = "done" =>
          result = VerifyOf(card, jwks, kidless, [i \in 1..Len(trace) |-> trace[i].at]))
  /\ [][/\ jwks' = jwks
        /\ (pc # "idle" /\ pc' # "idle") => card' = card]_vars

\* C28 witness: a call returned valid for a card of two envelopes, with both
\* keys of the set still loaded
C28_Witness ==
  /\ pc = "done"
  /\ jwks = Jwks(<<K1, K2>>)
  /\ Len(result.details) = 2
  /\ result.all_valid

\* C29 as stated: a verifier constructed without a key set takes the key set
\* of the first of inline JSON, file path and remote URL, in that order, that
\* can be read, and ends with None, without an error, when none is
\* configured.
C29_FirstSuccessWins ==
  (lpc # "new" /\ Falsy(given)) =>
    /\ LoadTrustedJwksFallingBack(environ).source # "none" =>
         /\ lpc = "made"
         /\ jwks = LoadTrustedJwksFallingBack(environ).value
         /\ source = LoadTrustedJwksFallingBack(environ).source
    /\ (~Truthy(environ.json) /\ ~Truthy(environ.path) /\ ~Truthy(environ.url)) =>
         (lpc = "made" /\ jwks = NoJwks)

(***************************************************************************)
(* Properties of the controller.                                           *)
(***************************************************************************)
\* the Agent CRs of namespace ns that record agent_name as their agent
RecordsOf(objects, ns, agent_name) ==
  { o \in objects : o.namespace = ns /\ o.agent_name = agent_name }

\* C30: whatever events the three watchers delivered and however their
\* handlers interleaved, no two Agent CRs record the same (namespace, agent
\* name); a step adds at most one CR, and never one for an agent that has a
\* CR already.
C30_OneRecordPerAgent ==
  /\ [](\A a, b \in store :
          (a.namespace = b.namespace /\ a.agent_name = b.agent_name) => a = b)
  /\ [][/\ Cardinality(store') <= Cardinality(store) + 1
        /\ \A n \in store' :
             GetAgent(store, n.namespace, n.name) = {} =>
               RecordsOf(store, n.namespace, n.agent_name) = {}]_vars

\* C30 witness: the CR of agent alpha was created on a Service event and a
\* later Route event for the same agent rewrote its sourceRef, while another
\* agent has its own CR
C30_Witness ==
  /\ Cardinality(store) = 2
  /\ <<"ns1", "alpha">> \in DOMAIN managed_agents
  /\ managed_agents[<<"ns1", "alpha">>] = <<"Service", "alpha-svc">>
  /\ \E o \in store : o.name = "alpha" /\ o.sourceRef.kind = "Route"

\* the object the handler of watcher w created itself and that nobody has
\* written since: its first status update belongs to the creation
OwnCreation(w, o) ==
  /\ handlers[w].pc = "awaiting"
  /\ handlers[w].created
  /\ handlers[w].agent = <<o>>

\* C31: a step of a handler working on a Service or Deployment ADDED or
\* MODIFIED event, its resumption after the await included, leaves every
\* Agent CR that has a status URL exactly as it was; the one exception is the
\* first status update of the CR that this very handler has just created.
C31_OnlyRoutesChangeStatus ==
  [][(clog'.kind \in {"Service", "Deployment"}
        /\ clog'.type \in {"ADDED", "MODIFIED", "resumed"}) =>
       \A o \in store :
         o.url # NoUrl =>
           \/ o \in store'
           \/ \E w \in {"services", "deployments"} :
                OwnCreation(w, o) /\ handlers'[w].pc = "idle"]_vars

\* C31 witness: the Service handler that created the CR was suspended, a
\* Route event gave the CR its URL meanwhile, and the Service handler's
\* status patch, sent last, changed nothing
C31_Witness ==
  /\ clog.type = "resumed" /\ clog.kind = "Service"
  /\ <<"ns1", "alpha">> \in DOMAIN managed_agents
  /\ managed_agents[<<"ns1", "alpha">>] = <<"Service", "alpha-svc">>
  /\ \A w \in Watchers : handlers[w].pc = "idle"
  /\ \E o \in store : o.name = "alpha" /\ o.sourceRef.kind = "Route" /\ o.url # NoUrl

\* the step just taken ended an update_agent_status whose patch was applied;
\* the call before the patch is the read of line 221 when no URL was given,
\* else the request to the card endpoint
StatusWritten(step) ==
  /\ Len(step.calls) >= 2
  /\ step.calls[Len(step.calls)] = "patch"
  /\ step.calls[Len(step.calls) - 1] \in {"get", "GET 200", "GET failed"}

Answered200(step) == step.calls[Len(step.calls) - 1] = "GET 200"

OtherConditions(conditions) == SelectSeq(conditions, LAMBDA c : c.type # "Ready")

ReadyConditions(conditions) == SelectSeq(conditions, LAMBDA c : c.type = "Ready")

\* the conditions of the CR named target before the step, <<>> if it was not
\* there
ConditionsBefore(target) ==
  IF GetAgent(store, target[1], target[2]) = {}
  THEN <<>>
  ELSE (CHOOSE o \in GetAgent(store, target[1], target[2]) : TRUE).conditions

\* C32: when update_agent_status has patched the CR, its phase is Ready if a
\* URL was supplied and the card endpoint answered 200 and Failed otherwise;
\* its conditions hold exactly one of type Ready, with status True exactly
\* for phase Ready, and the conditions of other types as they were, in order.
C32_PhaseAndReadyCondition ==
  [][StatusWritten(clog') =>
       /\ GetAgent(store', clog'.target[1], clog'.target[2]) # {}
       /\ \A n \in GetAgent(store', clog'.target[1], clog'.target[2]) :
            /\ n.phase = IF Answered200(clog') THEN "Ready" ELSE "Failed"
            /\ Len(ReadyConditions(n.conditions)) = 1
            /\ ReadyConditions(n.conditions)[1].status = "True" <=> n.phase = "Ready"
            /\ OtherConditions(n.conditions) =
                 OtherConditions(ConditionsBefore(clog'.target))]_vars

\* C32 witness: the CR that was there before the controller, with a Synced
\* condition and an old Ready condition, was patched Ready
C32_Witness ==
  /\ StatusWritten(clog) /\ Answered200(clog)
  /\ \E o \in store :
       /\ o.conditions = <<Condition("Synced", "True", "Applied"),
                           Condition("Ready", "True", "EndpointAccessible")>>
       /\ o.phase = "Ready"

\* the Agent CR that was in the cluster before the controller started: the
\* controller never writes a Synced condition and never drops one
FoundExisting(objects) == { o \in objects : OtherConditions(o.conditions) # <<>> }

\* C33: a DELETED event calls delete exactly when its agent_key is in
\* managed_agents, and for an untracked agent it makes no API call and
\* changes nothing; an Agent CR leaves the cluster only in such a DELETED
\* step, and the CR that existed before the controller started never does.
C33_DeleteOnlyTracked ==
  [][/\ clog'.type = "DELETED" /\ clog'.key # <<>> =>
          IF clog'.key \in DOMAIN managed_agents
          THEN clog'.calls = <<"delete">>
          ELSE clog'.calls = <<>> /\ UNCHANGED <<store, managed_agents>>
     /\ (\E o \in store : GetAgent(store', o.namespace, o.name) = {}) =>
          clog'.type = "DELETED" /\ clog'.key \in DOMAIN managed_agents
     /\ \A o \in FoundExisting(store) :
          FoundExisting(GetAgent(store', o.namespace, o.name)) # {}]_vars

\* C33 witness: the CR that existed before was updated from a Route event,
\* and the DELETED event of that route, its agent not being tracked, made no
\* call and left it there
C33_Witness ==
  /\ clog.type = "DELETED" /\ clog.kind = "Route" /\ clog.key = <<"ns1", "alpha">>
  /\ clog.calls = <<>>
  /\ \E o \in FoundExisting(store) : o.sourceRef.kind = "Route" /\ o.phase = "Ready"

\* C34 as stated: an Agent CR leaves the cluster only in the DELETED step of
\* the resource that managed_agents records as its creator.
C34_DeletedWithCreatorOnly ==
  [][(\E o \in store : GetAgent(store', o.namespace, o.name) = {}) =>
       /\ clog'.type = "DELETED"
       /\ clog'.key \in DOMAIN managed_agents
       /\ managed_agents[clog'.key] = <<clog'.kind, clog'.name>>]_vars

\* C35 as stated: once a DELETED event for a tracked agent has been handled,
\* its key is not in managed_agents, whatever the delete call answered.
C35_DeletedKeyForgotten ==
  [][(clog'.type = "DELETED" /\ clog'.key \in DOMAIN managed_agents) =>
       clog'.key \notin DOMAIN managed_agents']_vars

\* C36 as stated: a watcher whose stream or handler raised is eventually
\* watching again.
C36_WatcherRestarts ==
  \A w \in Watchers :
    (handlers[w].pc = "sleeping") ~> (handlers[w].pc = "streaming")

\* the watched resources that lack the agent class label or the agent name
\* label
Unlabelled ==
  {resource \in UNION {WatchedBy(w) : w \in Watchers} :
     ~Truthy(resource.class) \/ ~Truthy(resource.agent)}

\* the step just taken handled an event of resource
HandledEventOf(resource) ==
  /\ clog' # clog
  /\ clog'.type \in {"ADDED", "MODIFIED", "DELETED"}
  /\ clog'.kind = resource.kind
  /\ clog'.name = resource.name

\* C37: an event of a resource that lacks the agent class label or the agent
\* name label, whatever its type, makes no call that creates, patches or
\* deletes an Agent CR and leaves the CRs and managed_agents as they were.
C37_UnlabelledHasNoEffect ==
  [][\A resource \in Unlabelled :
       HandledEventOf(resource) =>
         /\ clog'.calls = <<>>
         /\ store' = store
         /\ managed_agents' = managed_agents]_vars

\* a DELETED event of the Deployment without class label, named after an
\* agent whose CR exists and is tracked, has been handled
C37_Witness ==
  /\ clog.type = "DELETED"
  /\ clog.kind = DeploymentClassless.kind
  /\ clog.name = DeploymentClassless.name
  /\ <<DeploymentClassless.ns, DeploymentClassless.agent>> \in DOMAIN managed_agents
  /\ store # {}

\* the Ready condition of a stored Agent CR has this reason
ReadyReason(o, reason) ==
  \E i \in DOMAIN o.conditions :
    o.conditions[i].type = "Ready" /\ o.conditions[i].reason = reason

\* C39 as stated: an Agent CR whose Ready condition has the reason NoURL
\* carries no url in its status.
C39_NoUrlMeansNoUrl ==
  \A o \in store : ReadyReason(o, "NoURL") => o.url = NoUrl

\* the key the client's set holds under the kid the card was signed with is
\* the public part of the signing key
TrustsSigner ==
  /\ jwks.loaded
  /\ \E j \in 1..Len(jwks.keys) :
       /\ jwks.keys[j] \in {PublicPart(signing, "sig"), PublicPart(signing, NoVal)}
       /\ \A m \in 1..(j - 1) : jwks.keys[m].kid # SignerKid(signing)

\* the published card as verify receives it
Published == mock_card

\* C38: a card signed by _sign_agent_card with RS256 verifies as all valid
\* when the client's key set holds the signing key's public part under the
\* signed kid; the payload the signer signed is one of the verifier's
\* candidates for the card; and once a member other than signatures has been
\* changed, verification fails.
C38_SignThenVerify ==
  /\ (spc \in {"signed", "verified"} /\ changed = "no") =>
       \E n \in 1..Len(CandidatePayloadB64s(Published)) :
         /\ CandidatePayloadB64s(Published)[n] = Base64urlEncode(SignerPayload(mock_card))
         /\ Published.sigs[1].signature.payload = CandidatePayloadB64s(Published)[n]
  /\ (spc = "verified" /\ changed = "no" /\ SignerAlg(signing) = "RS256" /\ TrustsSigner) =>
       verdict.ok /\ Len(verdict.details) = 1
  /\ (spc = "verified" /\ changed = "value") => ~verdict.ok

\* C38 witness: a card whose members are not in key order and whose version
\* is a float, signed under the key's own kid, verified as valid by a client
\* that also trusts another key
C38_Witness ==
  /\ spc = "verified"
  /\ changed = "no"
  /\ verdict.ok
  /\ mock_card.fields[1][1] = "version"
  /\ Len(CandidatePayloadB64s(Published)) = 2
  /\ signing.key_kid = "k1"
  /\ signing.env_kid = NoVal
  /\ Len(jwks.keys) = 2
====
